---- MODULE Spec2Model ----
(***************************************************************************)
(* Model of the reading tracker's metadata scraper (src/app.py):           *)
(* api_scrape_url and the helpers it calls.  Text is modelled character by *)
(* character: a string is a sequence of one-character strings, so that     *)
(* parsing, splitting, case folding and slicing are computed as the code   *)
(* computes them.                                                          *)
(***************************************************************************)
EXTENDS Integers, Sequences, FiniteSets, TLC

\* ------------------------------------------------------------ Python str

LowerChars == <<"a","b","c","d","e","f","g","h","i","j","k","l","m","n","o","p","q","r","s","t","u","v","w","x","y","z">>
UpperChars == <<"A","B","C","D","E","F","G","H","I","J","K","L","M","N","O","P","Q","R","S","T","U","V","W","X","Y","Z">>
DigitChars == <<"0","1","2","3","4","5","6","7","8","9">>

Range(s) == {s[i] : i \in 1..Len(s)}
Min(S) == CHOOSE p \in S : \A q \in S : p <= q
Max(S) == CHOOSE p \in S : \A q \in S : p >= q
MinOr(S, d) == IF S = {} THEN d ELSE Min(S)
MaxOr(S, d) == IF S = {} THEN d ELSE Max(S)

UpperSet == Range(UpperChars)
LowerSet == Range(LowerChars)
DigitSet == Range(DigitChars)
\* str.isspace for the whitespace the model's texts use
SpaceSet == {" ", "\n", "\t"}
IsAlpha(c) == c \in UpperSet \/ c \in LowerSet
IsSpace(c) == c \in SpaceSet

IndexIn(c, s) == CHOOSE i \in 1..Len(s) : s[i] = c

\* one character of str.lower / str.upper
LowerCh(c) == IF c \in UpperSet THEN LowerChars[IndexIn(c, UpperChars)] ELSE c
UpperCh(c) == IF c \in LowerSet THEN UpperChars[IndexIn(c, LowerChars)] ELSE c

\* the sequence with the values of f, a function on 1..n
AsSeq(f) == SubSeq(f, 1, Len(f))

\* str.lower()
Lower(s) == AsSeq([i \in 1..Len(s) |-> LowerCh(s[i])])

\* s[:n]
Take(s, n) == SubSeq(s, 1, IF n < Len(s) THEN n ELSE Len(s))
\* s[n:]  (n counted from 0, as in Python)
Drop(s, n) == SubSeq(s, n + 1, Len(s))

\* str.startswith(p)
StartsWith(s, p) == Len(s) >= Len(p) /\ SubSeq(s, 1, Len(p)) = p

\* sub in s at 1-based position i
MatchAt(s, sub, i) ==
    i >= 1 /\ i + Len(sub) - 1 <= Len(s) /\ SubSeq(s, i, i + Len(sub) - 1) = sub

\* str.find(sub, start) as a 1-based position; 0 when absent
FindFrom(s, sub, start) == MinOr({i \in start..Len(s) + 1 : MatchAt(s, sub, i)}, 0)
Find(s, sub) == FindFrom(s, sub, 1)

\* str.rfind(sub) as a 1-based position; 0 when absent
RFind(s, sub) == MaxOr({i \in 1..Len(s) + 1 : MatchAt(s, sub, i)}, 0)

\* sub in s
Contains(s, sub) == \E i \in 1..Len(s) + 1 : MatchAt(s, sub, i)

\* the first position >= start of a character in (not in) chars; Len(s)+1 when none
FirstOf(s, chars, start) == MinOr({k \in start..Len(s) : s[k] \in chars}, Len(s) + 1)
FirstNotOf(s, chars, start) == MinOr({k \in start..Len(s) : s[k] \notin chars}, Len(s) + 1)

\* the part of s from the first to the last of the positions P
Between(s, P) == IF P = {} THEN <<>> ELSE SubSeq(s, Min(P), Max(P))

\* str.strip(): leading and trailing whitespace removed
Strip(s) == Between(s, {i \in 1..Len(s) : s[i] \notin SpaceSet})

\* str.strip(ch) for one character ch
StripCh(s, ch) == Between(s, {i \in 1..Len(s) : s[i] # ch})

\* str.lstrip(ch)
LStripCh(s, ch) == SubSeq(s, FirstNotOf(s, {ch}, 1), Len(s))

\* str.split(ch): always at least one (possibly empty) piece
RECURSIVE Split(_, _)
SplitAt(s, ch, i) ==
    IF i = 0 THEN <<s>>
    ELSE <<SubSeq(s, 1, i - 1)>> \o Split(SubSeq(s, i + 1, Len(s)), ch)
Split(s, ch) == SplitAt(s, ch, FirstOf(s, {ch}, 1) % (Len(s) + 1))

\* str.split(): on runs of whitespace, no empty pieces
RECURSIVE SplitWS(_)
SplitWSAt(t, i) ==
    IF t = <<>> THEN <<>>
    ELSE IF i > Len(t) THEN <<t>>
    ELSE <<SubSeq(t, 1, i - 1)>> \o SplitWS(SubSeq(t, i + 1, Len(t)))
SplitWSOf(t) == SplitWSAt(t, FirstOf(t, SpaceSet, 1))
SplitWS(s) == SplitWSOf(Strip(s))

\* sep.join(parts)
RECURSIVE Join(_, _)
Join(parts, sep) ==
    IF parts = <<>> THEN <<>>
    ELSE IF Len(parts) = 1 THEN parts[1]
    ELSE parts[1] \o sep \o Join(Tail(parts), sep)

\* str.replace(a, b) for single characters
Replace(s, a, b) == AsSeq([i \in 1..Len(s) |-> IF s[i] = a THEN b ELSE s[i]])

\* str.capitalize(): first character upper-cased, the rest lower-cased
Capitalize(w) ==
    AsSeq([i \in 1..Len(w) |-> IF i = 1 THEN UpperCh(w[i]) ELSE LowerCh(w[i])])

\* int(digits) for a non-empty run of decimal digits
RECURSIVE ParseInt(_)
ParseInt(ds) ==
    IF ds = <<>> THEN 0
    ELSE ParseInt(SubSeq(ds, 1, Len(ds) - 1)) * 10 + (IndexIn(ds[Len(ds)], DigitChars) - 1)

\* the maximal run of digits of s starting at position i (empty when none)
DigitRun(s, i) == SubSeq(s, i, FirstNotOf(s, DigitSet, i) - 1)

\* the position after the maximal run of whitespace starting at position i
SkipSpace(s, i) == FirstNotOf(s, SpaceSet, i)

\* Python's None and a present value
None == [some |-> FALSE, v |-> <<>>]
Some(s) == [some |-> TRUE, v |-> s]
NoInt == [some |-> FALSE, n |-> 0]
SomeInt(k) == [some |-> TRUE, n |-> k]
\* truthiness of an optional string: present and non-empty
Truthy(o) == o.some /\ o.v # <<>>
\* a or b
OrElse(a, b) == IF Truthy(a) THEN a ELSE b

\* ------------------------------------------------------------ urllib.parse

HTTP == <<"h","t","t","p",":","/","/">>
HTTPS == <<"h","t","t","p","s",":","/","/">>
DATA == <<"d","a","t","a",":">>

SchemeChars == LowerSet \cup UpperSet \cup DigitSet \cup {"+", "-", "."}
\* urllib.parse.uses_relative / uses_netloc / uses_params, the schemes the model meets
UsesRelative == {<<>>, <<"h","t","t","p">>, <<"h","t","t","p","s">>, <<"f","t","p">>, <<"f","i","l","e">>}
UsesNetloc == {<<>>, <<"h","t","t","p">>, <<"h","t","t","p","s">>, <<"f","t","p">>, <<"f","i","l","e">>}
UsesParams == {<<>>, <<"h","t","t","p">>, <<"h","t","t","p","s">>, <<"f","t","p">>}

\* removal of tab and newline, as urlsplit does first
DropUnsafe(s) == SelectSeq(s, LAMBDA c : c \notin {"\n", "\t"})

\* urlsplit, the scheme: url[:i] when i is the position of the first colon and the
\* characters before it can be a scheme
split_scheme(url, default, i) ==
    IF i > 1 /\ IsAlpha(url[1]) /\ \A k \in 1..i - 1 : url[k] \in SchemeChars
    THEN [scheme |-> Lower(SubSeq(url, 1, i - 1)), rest |-> Drop(url, i)]
    ELSE [scheme |-> default, rest |-> url]

\* urlsplit, the netloc: what follows // up to the first of / ? #, at position delim
split_netloc(p, delim) ==
    IF Take(p.rest, 2) = <<"/","/">>
    THEN [scheme |-> p.scheme, netloc |-> SubSeq(p.rest, 3, delim - 1),
          rest |-> SubSeq(p.rest, delim, Len(p.rest))]
    ELSE [scheme |-> p.scheme, netloc |-> <<>>, rest |-> p.rest]

\* urlsplit, the fragment: what follows the first #, at position h
split_fragment(p, h) ==
    IF h = 0 THEN [scheme |-> p.scheme, netloc |-> p.netloc, rest |-> p.rest, fragment |-> <<>>]
    ELSE [scheme |-> p.scheme, netloc |-> p.netloc, rest |-> SubSeq(p.rest, 1, h - 1),
          fragment |-> Drop(p.rest, h)]

\* urlsplit, the query: what follows the first ?, at position q; the check of the
\* brackets of the netloc (ValueError) is reported in err
split_query(p, q) ==
    [err |-> ("[" \in Range(p.netloc)) # ("]" \in Range(p.netloc)),
     scheme |-> p.scheme, netloc |-> p.netloc,
     path |-> IF q = 0 THEN p.rest ELSE SubSeq(p.rest, 1, q - 1),
     params |-> <<>>,
     query |-> IF q = 0 THEN <<>> ELSE Drop(p.rest, q),
     fragment |-> p.fragment]

with_scheme(url, default) == split_scheme(url, default, Find(url, <<":">>))
with_netloc(p) == split_netloc(p, FirstOf(p.rest, {"/", "?", "#"}, 3))
with_fragment(p) == split_fragment(p, Find(p.rest, <<"#">>))
with_query(p) == split_query(p, Find(p.rest, <<"?">>))

\* urllib.parse.urlsplit(url, scheme=default)
urlsplit(url, default) ==
    with_query(with_fragment(with_netloc(with_scheme(DropUnsafe(LStripCh(url, " ")), default))))

\* urlparse: ;params are cut off the last path segment, at position semi
split_params(p, semi) ==
    IF p.scheme \in UsesParams /\ semi # 0
    THEN [p EXCEPT !.path = SubSeq(p.path, 1, semi - 1), !.params = Drop(p.path, semi)]
    ELSE p
with_params(p) == split_params(p, FindFrom(p.path, <<";">>, MaxOr({RFind(p.path, <<"/">>)}, 1)))

\* urllib.parse.urlparse(url, scheme=default)
urlparse2(url, default) == with_params(urlsplit(url, default))
urlparse(url) == urlparse2(url, <<>>)

\* urllib.parse.urlunparse, step by step
unparse_params(path, params) == IF params # <<>> THEN path \o <<";">> \o params ELSE path
unparse_netloc(scheme, netloc, u) ==
    IF netloc # <<>> \/ (scheme # <<>> /\ scheme \in UsesNetloc /\ Take(u, 2) # <<"/","/">>)
    THEN <<"/","/">> \o netloc \o (IF u # <<>> /\ Take(u, 1) # <<"/">> THEN <<"/">> ELSE <<>>) \o u
    ELSE u
unparse_rest(scheme, query, fragment, u) ==
    (IF scheme # <<>> THEN scheme \o <<":">> ELSE <<>>) \o u
    \o (IF query # <<>> THEN <<"?">> \o query ELSE <<>>)
    \o (IF fragment # <<>> THEN <<"#">> \o fragment ELSE <<>>)
urlunparse(p) ==
    unparse_rest(p.scheme, p.query, p.fragment,
                 unparse_netloc(p.scheme, p.netloc, unparse_params(p.path, p.params)))

\* segments[1:-1] = filter(None, segments[1:-1])
DropEmptyInner(segs) ==
    IF Len(segs) <= 2 THEN segs
    ELSE <<segs[1]>> \o SelectSeq(SubSeq(segs, 2, Len(segs) - 1), LAMBDA x : x # <<>>)
                     \o <<segs[Len(segs)]>>

\* the dot-segment loop of urljoin
RECURSIVE ResolveDots(_, _)
ResolveDots(segs, acc) ==
    IF segs = <<>> THEN acc
    ELSE ResolveDots(Tail(segs),
            IF Head(segs) = <<".",".">> THEN SubSeq(acc, 1, Len(acc) - 1)
            ELSE IF Head(segs) = <<".">> THEN acc
            ELSE Append(acc, Head(segs)))

\* urljoin: the base path without its last segment
base_parts(bp) == IF bp[Len(bp)] # <<>> THEN SubSeq(bp, 1, Len(bp) - 1) ELSE bp

\* urljoin: the segments to resolve
join_segments(bp, path, parts) ==
    IF Take(path, 1) = <<"/">> THEN parts ELSE DropEmptyInner(base_parts(bp) \o parts)

\* urljoin: the resolved path
join_resolved(segments, resolved) ==
    Join(IF segments[Len(segments)] \in {<<".">>, <<".",".">>} THEN Append(resolved, <<>>) ELSE resolved,
         <<"/">>)
resolve_segments(segments) == join_resolved(segments, ResolveDots(segments, <<>>))
merge_paths(bpath, path) ==
    OrElse(Some(resolve_segments(join_segments(Split(bpath, "/"), path, Split(path, "/")))),
           Some(<<"/">>)).v

\* urljoin: the parts of the joined URL, for a reference of the base's scheme
join_parts(b, u) ==
    IF u.scheme \in UsesNetloc /\ u.netloc # <<>> THEN u
    ELSE IF u.path = <<>> /\ u.params = <<>>
    THEN [u EXCEPT !.netloc = IF u.scheme \in UsesNetloc THEN b.netloc ELSE u.netloc,
                   !.path = b.path, !.params = b.params,
                   !.query = IF u.query = <<>> THEN b.query ELSE u.query]
    ELSE [u EXCEPT !.netloc = IF u.scheme \in UsesNetloc THEN b.netloc ELSE u.netloc,
                   !.path = merge_paths(b.path, u.path)]

join_parsed(url, b, u) ==
    IF u.scheme # b.scheme \/ u.scheme \notin UsesRelative THEN url
    ELSE urlunparse(join_parts(b, u))
join_base(url, b) == join_parsed(url, b, urlparse2(url, b.scheme))

\* urllib.parse.urljoin(base, url)
urljoin(base, url) ==
    IF base = <<>> THEN url
    ELSE IF url = <<>> THEN base
    ELSE join_base(url, urlparse2(base, <<>>))

\* ------------------------------------------------------------ the parsed document
\* What BeautifulSoup's queries (find, select, select_one, get_text) return for the
\* page, one field per query the scraper makes.
NoCovers == [i \in 1..12 |-> None]
EmptyDoc ==
    [og_title |-> None, title_tag |-> None,
     og_description |-> None, meta_description |-> None,
     og_image |-> None, twitter_image |-> None, schema_image |-> None,
     cover |-> NoCovers,
     keywords |-> None, og_type |-> None,
     genre |-> [i \in 1..13 |-> <<>>], ld_json |-> <<>>,
     reviews |-> <<>>, review_list |-> <<>>, count_el |-> None,
     comment_els |-> [i \in 1..8 |-> <<>>],
     text |-> <<>>]

\* soup.get_text(): the text outside the review blocks, then the text of what the
\* review blocks still hold
RECURSIVE children_text(_)
children_text(cs) == IF cs = <<>> THEN <<>> ELSE Head(cs).text \o children_text(Tail(cs))
RECURSIVE reviews_text(_)
reviews_text(rs) ==
    IF rs = <<>> THEN <<>> ELSE children_text(Head(rs).children) \o reviews_text(Tail(rs))
get_text(doc) == doc.text \o reviews_text(doc.reviews)

\* tag and tag.get('content') -> tag['content'].strip(), else nothing assigned
meta_content(m) == IF Truthy(m) THEN Some(Strip(m.v)) ELSE None

\* "if not value:" followed by an assignment of the candidate when there is one
IfNot(value, candidate) == IF Truthy(value) \/ ~candidate.some THEN value ELSE candidate

\* <title>: title_tag.get_text().strip() whenever the tag exists
tag_text(t) == IF t.some THEN Some(Strip(t.v)) ELSE None

\* title, lines 596-606: og:title first, <title> as the fallback
extract_title(doc) == IfNot(meta_content(doc.og_title), tag_text(doc.title_tag))

\* description, lines 608-618: og:description first, meta description as the fallback
extract_description(doc) ==
    IfNot(meta_content(doc.og_description), meta_content(doc.meta_description))

\* ------------------------------------------------------------ extract_image

\* the first cover selector, in list order, whose match carries a src
cover_at(cover, i) == IF i = 0 THEN None ELSE cover[i]
FirstCover(cover) == cover_at(cover, MinOr({i \in 1..Len(cover) : Truthy(cover[i])}, 0))

\* the value the cascade settles on, before relative URLs are made absolute
image_source(doc) ==
    IfNot(IfNot(IfNot(meta_content(doc.og_image), meta_content(doc.twitter_image)),
                meta_content(doc.schema_image)),
          FirstCover(doc.cover))

\* line 800: the prefixes that are returned as they are
IsAbsoluteRef(s) == StartsWith(s, HTTP) \/ StartsWith(s, HTTPS) \/ StartsWith(s, DATA)

\* variant: the source as the cascade found it, without lines 800-801
as_found(src, base_url) == src

\* lines 800-801
make_absolute(src, base_url) ==
    IF Truthy(src) /\ ~IsAbsoluteRef(src.v) THEN Some(urljoin(base_url, src.v)) ELSE src

extract_image(doc, base_url) == make_absolute(image_source(doc), base_url)

\* ------------------------------------------------------------ extract_chapter_info

\* int() refuses a digit string longer than this (CPython's default limit)
IntMaxStrDigits == 4300

is_digit_at(text, p) == p >= 1 /\ p <= Len(text) /\ text[p] \in DigitSet

\* lines 811-817; heads are the spellings of the literal part (all of length len),
\* dot is an optional "." after it, space is \s* before the digits
chapter_patterns ==
    << [heads |-> {<<"C","h","a","p","t","e","r">>, <<"c","h","a","p","t","e","r">>}, len |-> 7, dot |-> FALSE, space |-> TRUE],
       [heads |-> {<<"C","h">>, <<"c","h">>}, len |-> 2, dot |-> TRUE, space |-> TRUE],
       [heads |-> {<<"E","p","i","s","o","d","e">>, <<"e","p","i","s","o","d","e">>}, len |-> 7, dot |-> FALSE, space |-> TRUE],
       [heads |-> {<<"E","p">>, <<"e","p">>}, len |-> 2, dot |-> TRUE, space |-> TRUE],
       [heads |-> {<<"#">>}, len |-> 1, dot |-> FALSE, space |-> FALSE] >>

\* where (\d+) has to start for a match of the pattern starting at position i
after_dot(text, pat, j) == IF pat.dot /\ MatchAt(text, <<".">>, j) THEN j + 1 ELSE j
after_space(text, pat, k) == IF pat.space THEN SkipSpace(text, k) ELSE k
num_pos(text, pat, i) == after_space(text, pat, after_dot(text, pat, i + pat.len))

\* the pattern matches starting at position i
matches_at(text, pat, i) ==
    /\ \E h \in pat.heads : MatchAt(text, h, i)
    /\ is_digit_at(text, num_pos(text, pat, i))

\* re.search(pattern, text): the start of the leftmost match, 0 when there is none
search(text, pat) == MinOr({i \in 1..Len(text) : matches_at(text, pat, i)}, 0)

\* the loop of lines 821-825: group(1) of the first pattern, in list order, that
\* matches; empty when none does
first_group(text, hits, p) ==
    IF p = 0 THEN <<>> ELSE DigitRun(text, num_pos(text, chapter_patterns[p], hits[p]))
first_hit(text, hits) == first_group(text, hits, MinOr({p \in DOMAIN hits : hits[p] # 0}, 0))
current_digits(text) ==
    first_hit(text, [p \in 1..Len(chapter_patterns) |-> search(text, chapter_patterns[p])])

\* [Cc]hapters? at position i: the position after "chapter", 0 when it does not match
AfterChapters(text, i) ==
    IF MatchAt(text, <<"C","h","a","p","t","e","r">>, i) \/ MatchAt(text, <<"c","h","a","p","t","e","r">>, i) THEN i + 7 ELSE 0

\* \s*(?:total|available) at position k
total_word(text, k) == MatchAt(text, <<"t","o","t","a","l">>, k) \/ MatchAt(text, <<"a","v","a","i","l","a","b","l","e">>, k)
\* s?\s*(?:total|available) after "chapter" ending before position c (0: no "chapter")
plural_total(text, c) ==
    /\ c # 0
    /\ \/ total_word(text, SkipSpace(text, c))
       \/ MatchAt(text, <<"s">>, c) /\ total_word(text, SkipSpace(text, c + 1))

\* (\d+)\s*[Cc]hapters?\s*(?:total|available): the starts of the digit runs it
\* matches at (a match inside a run implies the match at the start of the run)
TotalP1(text) ==
    {i \in 1..Len(text) :
        /\ text[i] \in DigitSet
        /\ ~is_digit_at(text, i - 1)
        /\ plural_total(text,
              AfterChapters(text, SkipSpace(text, FirstNotOf(text, DigitSet, i))))}

\* the position k when it lies after position from and holds a digit, else 0
digits_after(text, from, k) == IF k > from /\ is_digit_at(text, k) THEN k ELSE 0

\* [Tt]otal[:\s]+(\d+): the position of the digits for a match starting at i, else 0
TotalP2At(text, i) ==
    IF MatchAt(text, <<"T","o","t","a","l">>, i) \/ MatchAt(text, <<"t","o","t","a","l">>, i)
    THEN digits_after(text, i + 5, FirstNotOf(text, SpaceSet \cup {":"}, i + 5))
    ELSE 0
TotalP2(text) == {i \in 1..Len(text) : TotalP2At(text, i) # 0}

\* of\s+(\d+)\s*[Cc]hapters?: the position of the digits for a match starting at i
chapters_after(text, k) ==
    IF k # 0 /\ AfterChapters(text, SkipSpace(text, FirstNotOf(text, DigitSet, k))) # 0
    THEN k ELSE 0
TotalP3At(text, i) ==
    IF MatchAt(text, <<"o","f">>, i)
    THEN chapters_after(text, digits_after(text, i + 2, SkipSpace(text, i + 2)))
    ELSE 0
TotalP3(text) == {i \in 1..Len(text) : TotalP3At(text, i) # 0}

\* the loop of lines 835-839: group(1) of the first total pattern, in list order,
\* that matches the page text
total_from3(text, i) == IF i # 0 THEN DigitRun(text, TotalP3At(text, i)) ELSE <<>>
total_from2(text, i) ==
    IF i # 0 THEN DigitRun(text, TotalP2At(text, i))
    ELSE total_from3(text, MinOr(TotalP3(text), 0))
total_from1(text, i) ==
    IF i # 0 THEN DigitRun(text, i) ELSE total_from2(text, MinOr(TotalP2(text), 0))
total_digits(text) == total_from1(text, MinOr(TotalP1(text), 0))

\* variant: the chapter patterns searched in the URL alone
url_alone(url, title) == <<" ">> \o url

\* the text the chapter patterns are searched in, line 819: f"{title or ''} {url}"
text_to_search(url, title) == OrElse(title, None).v \o <<" ">> \o url

\* int(match.group(1)) refuses the digits
int_raises(ds) == Len(ds) > IntMaxStrDigits

\* the dictionary the function returns for the two groups; raises is int() refusing
\* the digits, which nothing in the function catches
chapter_info(cur, tot) ==
    [current |-> IF cur = <<>> \/ int_raises(cur) THEN NoInt ELSE SomeInt(ParseInt(cur)),
     total |-> IF tot = <<>> \/ int_raises(cur) \/ int_raises(tot)
               THEN NoInt ELSE SomeInt(ParseInt(tot)),
     raises |-> int_raises(cur) \/ int_raises(tot)]

\* extract_chapter_info(soup, url, title)
extract_chapter_info(doc, url, title) ==
    chapter_info(current_digits(text_to_search(url, title)), total_digits(get_text(doc)))

\* ------------------------------------------------------------ extract_suggested_tags

MaxTags == 10
noise_words ==
    {<<"h","o","m","e">>, <<"p","a","g","e">>, <<"w","e","b","s","i","t","e">>, <<"s","i","t","e">>, <<"r","e","a","d">>, <<"o","n","l","i","n","e">>, <<"f","r","e","e">>, <<"w","w","w">>,
     <<"t","h","e">>, <<"a","n","d">>, <<"f","o","r">>}

\* tags.add(t) on the set of tags, kept here in the order of first insertion
AddTag(acc, t) == IF t \in Range(acc) THEN acc ELSE Append(acc, t)
RECURSIVE AddAll(_, _)
AddAll(acc, ts) == IF ts = <<>> THEN acc ELSE AddAll(AddTag(acc, Head(ts)), Tail(ts))

StripAll(ts) == [i \in 1..Len(ts) |-> Strip(ts[i])]
LowerAll(ts) == [i \in 1..Len(ts) |-> Lower(ts[i])]
\* t and len(t) < n and len(t) > 1
TagLike(t, n) == t # <<>> /\ Len(t) < n /\ Len(t) > 1

\* lines 849-855: the keywords meta tag
keyword_tags(doc) ==
    IF Truthy(doc.keywords)
    THEN LowerAll(SelectSeq(StripAll(Take(Split(doc.keywords.v, ","), 8)),
                            LAMBDA kw : TagLike(kw, 30)))
    ELSE <<>>

\* lines 858-862: og:type
og_type_tag(content) == IF content # <<>> /\ content # <<"w","e","b","s","i","t","e">> THEN <<content>> ELSE <<>>
og_type_tags(doc) ==
    IF Truthy(doc.og_type) THEN og_type_tag(Lower(Strip(doc.og_type.v))) ELSE <<>>

\* the characters of [:\s]
SepSet == SpaceSet \cup {":"}

\* re.sub(r'^(genre|tag|category)[:\s]*', '', text)
label_len(text) ==
    IF StartsWith(text, <<"g","e","n","r","e">>) THEN 5
    ELSE IF StartsWith(text, <<"t","a","g">>) THEN 3
    ELSE IF StartsWith(text, <<"c","a","t","e","g","o","r","y">>) THEN 8
    ELSE 0
drop_label(text, n) == IF n = 0 THEN text ELSE Drop(text, FirstNotOf(text, SepSet, n + 1) - 1)
strip_label(text) == drop_label(text, label_len(text))
StripLabels(ts) == [i \in 1..Len(ts) |-> strip_label(ts[i])]

\* lines 878-884: the tags of one genre selector's elements
selector_tags(els) ==
    SelectSeq(StripLabels(SelectSeq(LowerAll(StripAll(Take(els, 10))),
                                    LAMBDA t : TagLike(t, 30))),
              LAMBDA t : t # <<>>)

RECURSIVE genre_tags(_)
genre_tags(genre) ==
    IF genre = <<>> THEN <<>> ELSE selector_tags(Head(genre)) \o genre_tags(Tail(genre))

\* lines 889-900: the genre of each ld+json block that loads as a dict; a block that
\* does not load is skipped, an item that is no string is skipped
Values(os) == [i \in 1..Len(os) |-> os[i].v]
block_tags(b) ==
    IF b.ok THEN LowerAll(Values(SelectSeq(b.genre, LAMBDA g : g.some))) ELSE <<>>
RECURSIVE ld_json_tags(_)
ld_json_tags(blocks) ==
    IF blocks = <<>> THEN <<>> ELSE block_tags(Head(blocks)) \o ld_json_tags(Tail(blocks))

\* lines 904-908; heads are the spellings of the label (all of length len), plural is
\* the optional s, comma is whether the group's class holds the comma
genre_patterns ==
    << [heads |-> {<<"G","e","n","r","e">>, <<"g","e","n","r","e">>}, len |-> 5, plural |-> TRUE, comma |-> TRUE],
       [heads |-> {<<"T","y","p","e">>, <<"t","y","p","e">>}, len |-> 4, plural |-> FALSE, comma |-> FALSE],
       [heads |-> {<<"C","a","t","e","g","o","r","y">>, <<"c","a","t","e","g","o","r","y">>}, len |-> 8, plural |-> FALSE, comma |-> TRUE] >>

LabelTerm == {"\n", ".", "|"}
LabelLetters == LowerSet \cup UpperSet \cup SpaceSet
LabelClass(comma) == IF comma THEN LabelLetters \cup {","} ELSE LabelLetters

\* the lazy group ([A-Za-z,\s]+?) followed by (?:\n|\.|\|), tried at position g with
\* the first terminator after g at position e: e, or 0 when the group cannot match
group_end(text, g, comma, e) ==
    IF g <= Len(text) /\ e <= Len(text) /\ \A k \in g..e - 1 : text[k] \in LabelClass(comma)
    THEN e ELSE 0
LabelGroupEnd(text, g, comma) == group_end(text, g, comma, FirstOf(text, LabelTerm, g + 1))

\* [:\s]+ from position p: the start of the group for the longest separator run that
\* lets the rest match, 0 when none does
label_sep(text, pat, p) ==
    MaxOr({g \in p + 1..FirstNotOf(text, SepSet, p) :
              LabelGroupEnd(text, g, pat.comma) # 0}, 0)
plural_end(text, pat, p) == IF pat.plural /\ MatchAt(text, <<"s">>, p) THEN p + 1 ELSE p

\* the pattern matched at position i: the start of its group, 0 when there is no match
LabelAt(text, pat, i) ==
    IF \E h \in pat.heads : MatchAt(text, h, i)
    THEN label_sep(text, pat, plural_end(text, pat, i + pat.len))
    ELSE 0

\* group(1) of re.search for one labelled pattern; empty when there is no match
group_text(text, pat, g) == SubSeq(text, g, LabelGroupEnd(text, g, pat.comma) - 1)
group_from(text, pat, i) ==
    IF i = 0 THEN <<>> ELSE group_text(text, pat, LabelAt(text, pat, i))
label_group(text, pat) ==
    group_from(text, pat, MinOr({i \in 1..Len(text) : LabelAt(text, pat, i) # 0}, 0))

\* lines 912-916: the tags of one labelled match
label_tags(group) ==
    IF group = <<>> THEN <<>>
    ELSE SelectSeq(LowerAll(StripAll(Take(Split(group, ","), 3))), LAMBDA g : TagLike(g, 25))

RECURSIVE pattern_tags(_, _)
pattern_tags(text, pats) ==
    IF pats = <<>> THEN <<>>
    ELSE label_tags(label_group(text, Head(pats))) \o pattern_tags(text, Tail(pats))
text_tags(text) == pattern_tags(text, genre_patterns)

\* lines 923-950: one rule per tag; in_url are the words looked for in the lower-cased
\* URL, in_domain those looked for in the lower-cased netloc
url_rules ==
    << [tag |-> <<"m","a","n","g","a">>, in_url |-> {<<"m","a","n","g","a">>}, in_domain |-> {<<"m","a","n","g","a">>}],
       [tag |-> <<"m","a","n","h","w","a">>, in_url |-> {<<"m","a","n","h","w","a">>}, in_domain |-> {<<"m","a","n","h","w","a">>}],
       [tag |-> <<"m","a","n","h","u","a">>, in_url |-> {<<"m","a","n","h","u","a">>}, in_domain |-> {<<"m","a","n","h","u","a">>}],
       [tag |-> <<"n","o","v","e","l">>, in_url |-> {<<"n","o","v","e","l">>, <<"l","i","g","h","t","n","o","v","e","l">>}, in_domain |-> {<<"n","o","v","e","l","u","p","d","a","t","e","s">>}],
       [tag |-> <<"w","e","b","t","o","o","n">>, in_url |-> {<<"w","e","b","t","o","o","n">>, <<"c","o","m","i","c">>}, in_domain |-> {}],
       [tag |-> <<"f","a","n","f","i","c","t","i","o","n">>, in_url |-> {<<"f","a","n","f","i","c">>, <<"f","a","n","f","i","c","t","i","o","n">>},
        in_domain |-> {<<"a","o","3">>, <<"a","r","c","h","i","v","e","o","f","o","u","r","o","w","n">>}],
       [tag |-> <<"w","a","t","t","p","a","d">>, in_url |-> {}, in_domain |-> {<<"w","a","t","t","p","a","d">>}],
       [tag |-> <<"p","a","p","e","r">>, in_url |-> {}, in_domain |-> {<<"a","r","x","i","v">>}],
       [tag |-> <<"a","r","t","i","c","l","e">>, in_url |-> {}, in_domain |-> {<<"m","e","d","i","u","m",".","c","o","m">>}],
       [tag |-> <<"g","i","t","h","u","b">>, in_url |-> {}, in_domain |-> {<<"g","i","t","h","u","b",".","c","o","m">>}],
       [tag |-> <<"v","i","d","e","o">>, in_url |-> {}, in_domain |-> {<<"y","o","u","t","u","b","e",".","c","o","m">>, <<"y","o","u","t","u",".","b","e">>}],
       [tag |-> <<"r","e","d","d","i","t">>, in_url |-> {}, in_domain |-> {<<"r","e","d","d","i","t",".","c","o","m">>}],
       [tag |-> <<"w","i","k","i">>, in_url |-> {}, in_domain |-> {<<"w","i","k","i","p","e","d","i","a">>}],
       [tag |-> <<"b","o","o","k">>, in_url |-> {}, in_domain |-> {<<"g","o","o","d","r","e","a","d","s">>}] >>

rule_applies(rule, url_lower, domain) ==
    \/ \E w \in rule.in_url : Contains(url_lower, w)
    \/ \E w \in rule.in_domain : Contains(domain, w)
Tags(rules) == [i \in 1..Len(rules) |-> rules[i].tag]
rule_tags(url_lower, domain) ==
    Tags(SelectSeq(url_rules, LAMBDA rule : rule_applies(rule, url_lower, domain)))

\* lines 919-950: the tags the URL and its domain give
url_tags(url) == rule_tags(Lower(url), Lower(urlparse(url).netloc))

\* the distinct tags in the order they are first added to the set
discovered_tags(doc, url) ==
    AddAll(<<>>, keyword_tags(doc) \o og_type_tags(doc) \o genre_tags(doc.genre)
                 \o ld_json_tags(doc.ld_json) \o text_tags(get_text(doc)) \o url_tags(url))

\* variant: the set as it is, without the filter of line 954
with_noise(tags) == tags

\* line 954: the noise words are taken out of the set
without_noise(tags) == SelectSeq(tags, LAMBDA t : t \notin noise_words)

\* list(tags): a set of str is iterated in the order of the strings' hashes, which
\* str hash randomisation draws anew for every interpreter process.  seed stands for
\* the process's hash seed: every seed gives one arrangement of the same elements.
Rotate(s, k) == [i \in 1..Len(s) |-> s[((i - 1 + k) % Len(s)) + 1]]
Reverse(s) == [i \in 1..Len(s) |-> s[Len(s) + 1 - i]]
set_order(s, seed) ==
    IF seed % 2 = 0 THEN Rotate(s, seed \div 2) ELSE Reverse(Rotate(s, seed \div 2))

\* extract_suggested_tags(soup, url), run in a process whose hash seed is seed
extract_suggested_tags(doc, url, seed) ==
    Take(set_order(without_noise(discovered_tags(doc, url)), seed), MaxTags)

\* ------------------------------------------------------------ extract_comments

MaxComments == 15
KeyLen == 80
TextLen == 500
PageTextLen == 5000

\* any(phrase in s for phrase in phrases)
AnyIn(phrases, s) == \E p \in phrases : Contains(s, p)

\* the dictionary appended to comments
comment(text, author, date) == [text |-> Take(text, TextLen), author |-> author, date |-> date]

\* lines 990-991: decompose() takes the metadata elements out of the review block,
\* that is out of the parsed document itself
decompose(el) ==
    [el EXCEPT !.children = SelectSeq(el.children, LAMBDA c : c.cls # "meta"),
               !.date = IF el.date_in_meta THEN None ELSE el.date,
               !.date_in_meta = FALSE]

\* line 988: the review has no text element, or an empty one
needs_decompose(el) == ~Truthy(el.body)

\* the element as the loop body leaves it in the document
review_after(el) == IF needs_decompose(el) THEN decompose(el) ELSE el

\* lines 993-1002: the long direct paragraphs that do not look like metadata
Texts(cs) == [i \in 1..Len(cs) |-> cs[i].text]
is_content(c) ==
    /\ c.cls \in {"p", "div"}
    /\ Len(c.text) > 50
    /\ ~AnyIn({<<"r","a","t","e","d"," ","i","t">>, <<"o","t","h","e","r"," ","r","e","v","i","e","w","s">>, <<"s","t","a","t","u","s",":">>}, Lower(c.text))
content_parts(el) == Texts(SelectSeq(el.children, is_content))

review_skip_phrases ==
    {<<"w","r","i","t","e"," ","a"," ","r","e","v","i","e","w">>, <<"l","e","a","v","e"," ","a"," ","r","e","v","i","e","w">>, <<"o","t","h","e","r"," ","r","e","v","i","e","w","s"," ","b","y"," ","t","h","i","s"," ","u","s","e","r">>, <<"r","a","t","e","d"," ","i","t">>,
     <<"g","u","i","d","e","l","i","n","e","s">>, <<"y","o","u"," ","m","u","s","t"," ","b","e">>, <<"r","e","g","i","s","t","e","r">>, <<"l","o","g","i","n">>}

\* lines 1010-1019
review_kept(text, author, date) ==
    IF text # <<>> /\ Len(text) > 30 /\ ~AnyIn(review_skip_phrases, Take(Lower(text), 100))
    THEN <<comment(text, author, date)>>
    ELSE <<>>

\* lines 981-1002: the text of the review's text element, else the joined paragraphs
\* of what decompose() left
review_text(el, after) ==
    IF Truthy(el.body) THEN el.body.v ELSE Join(content_parts(after), <<" ">>)

\* lines 973-1019: the comment one .w-review element yields, if any
review_of(el, after) == review_kept(review_text(el, after), el.author, after.date)
review_comment(el) == review_of(el, review_after(el))

RECURSIVE review_comments(_)
review_comments(els) ==
    IF els = <<>> THEN <<>> ELSE review_comment(Head(els)) \o review_comments(Tail(els))

\* lines 1028-1037
list_kept(text) ==
    IF text # <<>> /\ Len(text) > 50
       /\ ~AnyIn({<<"w","r","i","t","e">>, <<"s","o","r","t">>, <<"f","i","l","t","e","r">>, <<"l","o","g","i","n">>}, Take(Lower(text), 50))
    THEN <<comment(text, None, None)>>
    ELSE <<>>

\* lines 1026-1039: the secondary selector set of the review site
RECURSIVE review_list_comments(_)
review_list_comments(texts) ==
    IF texts = <<>> THEN <<>>
    ELSE list_kept(Head(texts)) \o review_list_comments(Tail(texts))

\* re.search(r'(\d+)', text).group(1); empty when there is no digit
first_digits(text) == DigitRun(text, FirstOf(text, DigitSet, 1))

comment_skip_phrases ==
    {<<"w","r","i","t","e"," ","a">>, <<"l","e","a","v","e"," ","a">>, <<"l","o","g"," ","i","n">>, <<"s","i","g","n"," ","u","p">>, <<"r","e","g","i","s","t","e","r">>, <<"g","u","i","d","e","l","i","n","e","s">>}

\* lines 1069-1078: the first author selector that matches inside the parent
author_at(sels, i) == IF i = 0 THEN None ELSE sels[i]
find_author(sels) == author_at(sels, MinOr({i \in 1..Len(sels) : sels[i].some}, 0))

\* variant: a text of 30 or of 2000 characters is kept too
generic_kept_inclusive(text, authors) ==
    IF text # <<>> /\ Len(text) >= 30 /\ Len(text) <= 2000
       /\ ~AnyIn(comment_skip_phrases, Take(Lower(text), 50))
    THEN <<comment(text, find_author(authors), None)>>
    ELSE <<>>

\* lines 1061-1084
generic_kept(text, authors) ==
    IF text # <<>> /\ Len(text) > 30 /\ Len(text) < 2000
       /\ ~AnyIn(comment_skip_phrases, Take(Lower(text), 50))
    THEN <<comment(text, find_author(authors), None)>>
    ELSE <<>>

\* lines 1060-1084: the comments of one generic selector group
RECURSIVE group_comments(_)
group_comments(els) ==
    IF els = <<>> THEN <<>>
    ELSE generic_kept(Head(els).text, Head(els).authors) \o group_comments(Tail(els))

\* lines 1057-1089: the groups in list order, stopping at the first that yields any
RECURSIVE generic_comments(_)
first_group_of(got, groups) == IF got # <<>> THEN got ELSE generic_comments(Tail(groups))
generic_comments(groups) ==
    IF groups = <<>> THEN <<>>
    ELSE first_group_of(group_comments(Take(Head(groups), 15)), groups)

\* (\d+)\s*word, ignoring case: the starts of the digit runs it matches at
CountBefore(low, word) ==
    {i \in 1..Len(low) :
        /\ low[i] \in DigitSet
        /\ ~is_digit_at(low, i - 1)
        /\ MatchAt(low, word, SkipSpace(low, FirstNotOf(low, DigitSet, i)))}

\* \((\d+)\) at position o: the position of the digits, 0 when it does not match
paren_digits(low, o) ==
    IF MatchAt(low, <<"(">>, o) /\ is_digit_at(low, o + 1)
       /\ MatchAt(low, <<")">>, FirstNotOf(low, DigitSet, o + 1))
    THEN o + 1 ELSE 0

\* s?\s*\((\d+)\) at position p
plural_paren(low, p, with_s) ==
    IF MatchAt(low, <<"s">>, p) /\ with_s # 0 THEN with_s ELSE paren_digits(low, SkipSpace(low, p))
after_word(low, p) == plural_paren(low, p, paren_digits(low, SkipSpace(low, p + 1)))

\* words?\s*\((\d+)\), ignoring case: the position of the digits for a match at i
CountAfterAt(low, word, i) ==
    IF MatchAt(low, word, i) THEN after_word(low, i + Len(word)) ELSE 0
CountAfter(low, word) == {i \in 1..Len(low) : CountAfterAt(low, word, i) # 0}

\* lines 1099-1103: group(1) of the first count pattern, in list order, that matches
count_from4(low, i) ==
    IF i # 0 THEN DigitRun(low, CountAfterAt(low, <<"r","e","v","i","e","w">>, i)) ELSE <<>>
count_from3(low, i) ==
    IF i # 0 THEN DigitRun(low, CountAfterAt(low, <<"c","o","m","m","e","n","t">>, i))
    ELSE count_from4(low, MinOr(CountAfter(low, <<"r","e","v","i","e","w">>), 0))
count_from2(low, i) ==
    IF i # 0 THEN DigitRun(low, i) ELSE count_from3(low, MinOr(CountAfter(low, <<"c","o","m","m","e","n","t">>), 0))
count_from1(low, i) ==
    IF i # 0 THEN DigitRun(low, i) ELSE count_from2(low, MinOr(CountBefore(low, <<"r","e","v","i","e","w">>), 0))
count_in(low) == count_from1(low, MinOr(CountBefore(low, <<"c","o","m","m","e","n","t">>), 0))

\* variant: the count patterns searched in the whole page text, without the slice of
\* line 1098
count_anywhere(page_text) == count_in(Lower(page_text))

\* lines 1092-1103: the digits of the first count pattern that matches the first
\* 5000 characters of the page text
count_digits(page_text) == count_in(Lower(Take(page_text, PageTextLen)))

\* variant: every comment kept, without the loop of lines 1108-1113
every_comment(cs) == cs

\* line 1110: ' '.join(c['text'].lower().split())[:80]
normalized(text) == Take(Join(SplitWS(Lower(text)), <<" ">>), KeyLen)

\* lines 1106-1113: the first comment of every normalized key
RECURSIVE unique(_, _)
unique_step(cs, seen, key) ==
    IF key \in seen THEN unique(Tail(cs), seen)
    ELSE <<Head(cs)>> \o unique(Tail(cs), seen \cup {key})
unique(cs, seen) == IF cs = <<>> THEN <<>> ELSE unique_step(cs, seen, normalized(Head(cs).text))
unique_comments(cs) == unique(cs, {})

\* line 968
is_review_site(url) == Contains(Lower(urlparse(url).netloc), <<"n","o","v","e","l","u","p","d","a","t","e","s",".","c","o","m">>)

\* lines 972-991: the document as the loop over the first 15 review blocks leaves it
ReviewsAfter(reviews) ==
    [i \in 1..Len(reviews) |-> IF i <= 15 THEN review_after(reviews[i]) ELSE reviews[i]]
soup_after(doc, site) ==
    IF site THEN [doc EXCEPT !.reviews = ReviewsAfter(doc.reviews)] ELSE doc

\* lines 1024-1039: the secondary selectors, only when the primary ones gave nothing
primary_or_list(primary, review_list) ==
    IF primary = <<>> THEN review_list_comments(review_list) ELSE primary

\* lines 968-1039: the comments of the review-site branch
site_comments(doc, site) ==
    IF site THEN primary_or_list(review_comments(Take(doc.reviews, 15)), doc.review_list)
    ELSE <<>>

\* lines 1042-1046: the digits of the review site's count element
element_digits(doc, site) ==
    IF site /\ doc.count_el.some THEN first_digits(doc.count_el.v) ELSE <<>>

\* variant: the generic selectors are consulted whatever was found before, and what
\* they retain is added to it
and_generic(found, doc) == found \o generic_comments(doc.comment_els)

\* lines 1049-1089: the generic selectors, only when there are no comments so far
or_generic(found, doc) == IF found = <<>> THEN generic_comments(doc.comment_els) ELSE found
\* lines 1091-1103: the count patterns, in the same case
pattern_digits(found, soup) == IF found = <<>> THEN count_digits(get_text(soup)) ELSE <<>>

\* variant: the comments are counted after the cut of line 1119
comments_data_returned(uniq, total_count, soup) ==
    [comments |-> Take(uniq, MaxComments),
     total |-> IF total_count = 0 THEN Len(Take(uniq, MaxComments)) ELSE total_count,
     soup |-> soup]

\* lines 1115-1121
comments_data(uniq, total_count, soup) ==
    [comments |-> Take(uniq, MaxComments),
     total |-> IF total_count = 0 THEN Len(uniq) ELSE total_count,
     soup |-> soup]

\* total_count after lines 1046 and 1102: the pattern's number when a pattern matched,
\* else the count element's, else 0
total_of(el_digits, pat_digits) == ParseInt(IF pat_digits # <<>> THEN pat_digits ELSE el_digits)

\* lines 1105-1124; int() refusing either run of digits is caught by line 1123
collected(comments, el_digits, pat_digits, soup) ==
    IF int_raises(el_digits) \/ int_raises(pat_digits)
    THEN [comments |-> <<>>, total |-> 0, soup |-> soup]
    ELSE comments_data(unique_comments(comments), total_of(el_digits, pat_digits), soup)

comments_from(doc, site, found, soup) ==
    collected(or_generic(found, doc), element_digits(doc, site), pattern_digits(found, soup), soup)
comments_on(doc, site) == comments_from(doc, site, site_comments(doc, site), soup_after(doc, site))

\* extract_comments(soup, url): the comments, the total, and the document as the
\* function leaves it
extract_comments(doc, url) == comments_on(doc, is_review_site(url))

\* ------------------------------------------------------------ extract_from_url

\* line 678: the last path part, or the one before it when the last is empty
last_part(path_parts) ==
    IF path_parts[Len(path_parts)] # <<>> THEN path_parts[Len(path_parts)]
    ELSE IF Len(path_parts) > 1 THEN path_parts[Len(path_parts) - 1]
    ELSE <<>>

\* lines 675-679: the last path segment, without query and fragment
url_slug(path) == Split(Split(last_part(Split(StripCh(path, "/"), "/")), "?")[1], "#")[1]

\* variant: the slug taken as the title, without the conversion of lines 683-685
slug_as_title(slug) == slug

\* lines 683-685: the slug as a title
CapitalizeAll(ws) == [i \in 1..Len(ws) |-> Capitalize(ws[i])]
slug_title(slug) == Join(CapitalizeAll(SplitWS(Replace(Replace(slug, "-", " "), "_", " "))), <<" ">>)

\* lines 691-698: one rule per tag, on the lower-cased URL, netloc and path
fallback_rules ==
    << [tag |-> <<"n","o","v","e","l">>, in_url |-> {<<"n","o","v","e","l">>}, in_domain |-> {<<"n","o","v","e","l","u","p","d","a","t","e","s">>}, in_path |-> {}],
       [tag |-> <<"m","a","n","g","a">>, in_url |-> {<<"m","a","n","g","a">>}, in_domain |-> {<<"m","a","n","g","a">>}, in_path |-> {}],
       [tag |-> <<"w","e","b","t","o","o","n">>, in_url |-> {<<"w","e","b","t","o","o","n">>, <<"c","o","m","i","c">>}, in_domain |-> {}, in_path |-> {}],
       [tag |-> <<"s","e","r","i","e","s">>, in_url |-> {}, in_domain |-> {}, in_path |-> {<<"s","e","r","i","e","s">>}] >>

fallback_applies(rule, url_lower, domain, path_lower) ==
    \/ rule_applies(rule, url_lower, domain)
    \/ \E w \in rule.in_path : Contains(path_lower, w)

\* lines 688-698: the tags the URL gives
fallback_tags(url, parsed) ==
    Tags(SelectSeq(fallback_rules, LAMBDA rule :
            fallback_applies(rule, Lower(url), Lower(parsed.netloc), Lower(parsed.path))))

\* line 704: the pages whose cover the CDN is probed for
needs_probe(parsed) ==
    Contains(Lower(parsed.netloc), <<"n","o","v","e","l","u","p","d","a","t","e","s",".","c","o","m">>) /\ Contains(parsed.path, <<"/","s","e","r","i","e","s","/">>)

\* lines 729-732 of try_fetch_novelupdates_image
cdn_patterns(slug) ==
    << <<"h","t","t","p","s",":","/","/","c","d","n",".","n","o","v","e","l","u","p","d","a","t","e","s",".","c","o","m","/","i","m","g","m","i","d","/">> \o slug \o <<".","j","p","g">>,
       <<"h","t","t","p","s",":","/","/","c","d","n",".","n","o","v","e","l","u","p","d","a","t","e","s",".","c","o","m","/","i","m","g","m","i","d","/">> \o slug \o <<".","p","n","g">> >>

\* the payload of a response; has_comments tells the payloads that carry the keys
\* comments and total_comments (lines 641-642) from those that do not (lines 710-718)
NoData ==
    [title |-> None, description |-> None, image_url |-> None,
     chapter_current |-> NoInt, chapter_total |-> NoInt,
     suggested_tags |-> <<>>, has_comments |-> FALSE, comments |-> <<>>,
     total_comments |-> 0, url |-> <<>>]

\* lines 710-718: what extract_from_url returns when it returns a dictionary
fallback_data(url, parsed, slug) ==
    [NoData EXCEPT !.title = Some(slug_title(slug)),
                   !.suggested_tags = Take(fallback_tags(url, parsed), 5),
                   !.url = url]

\* variant: a dictionary is returned for an empty slug too, without line 681
from_any_slug(url, parsed, slug) ==
    [none |-> parsed.err,
     probe |-> ~parsed.err /\ slug # <<>> /\ needs_probe(parsed),
     slug |-> slug,
     data |-> fallback_data(url, parsed, slug)]

\* extract_from_url up to line 704: none is the function returning None (urlparse
\* raising, caught at line 719, or no slug), probe is line 704 holding
from_slug(url, parsed, slug) ==
    [none |-> parsed.err \/ slug = <<>>,
     probe |-> ~parsed.err /\ slug # <<>> /\ needs_probe(parsed),
     slug |-> slug,
     data |-> fallback_data(url, parsed, slug)]
from_parsed(url, parsed) ==
    from_slug(url, parsed, IF parsed.err THEN <<>> ELSE url_slug(parsed.path))
extract_from_url(url) == from_parsed(url, urlparse(url))

\* ------------------------------------------------------------ the pages served
\* A page is named by a record; Page gives the document BeautifulSoup parses it to.

NoPage == [kind |-> "empty"]

\* str(i)
RECURSIVE ToStr(_)
ToStr(i) ==
    IF i < 10 THEN <<DigitChars[i + 1]>> ELSE ToStr(i \div 10) \o <<DigitChars[(i % 10) + 1]>>

\* the page of the specification's title example, with a relative og:image
MoonBlade ==
    [EmptyDoc EXCEPT !.og_title = Some(<<"M","o","o","n"," ","B","l","a","d","e">>),
                     !.title_tag = Some(<<"M","o","o","n"," ","B","l","a","d","e"," ","-"," ","C","h","a","p","t","e","r"," ","1","2">>),
                     !.og_image = Some(<<"/","c","o","v","e","r","s","/","x",".","j","p","g">>),
                     !.keywords = Some(<<"F","a","n","t","a","s","y",","," ","A","c","t","i","o","n">>),
                     !.text = <<"M","o","o","n"," ","B","l","a","d","e","\n","1","2","0"," ","C","h","a","p","t","e","r","s"," ","a","v","a","i","l","a","b","l","e">>]
\* the same page without the og:title
Titled == [MoonBlade EXCEPT !.og_title = None]
\* a page whose chapter total has more digits than int() accepts
HugeTotal == [EmptyDoc EXCEPT !.text = <<"T","o","t","a","l",":"," ">> \o [i \in 1..IntMaxStrDigits + 1 |-> "7"]]

\* ---- pages for the tags: the first kw of KeywordPool in the keywords meta tag, the
\* first genre of GenrePool as '.genre a' elements, and with extra an og:type, two
\* ld+json blocks, a second genre selector and labelled text
MaxKeywords == 9
MaxGenres == 11
KeywordPool ==
    << <<"F","a","n","t","a","s","y">>, <<" ","A","c","t","i","o","n"," ">>, <<"H","O","M","E">>, <<"f","a","n","t","a","s","y">>, <<"T","h","e">>, <<"R","o","m","a","n","c","e">>, <<"a">>, <<"D","r","a","m","a">>,
       <<"I","s","e","k","a","i">>, <<"M","a","g","i","c">>, <<"S","c","h","o","o","l">> >>
GenrePool ==
    << <<"G","e","n","r","e",":"," ","C","o","m","e","d","y">>, <<"A","C","T","I","O","N">>, <<"s","i","t","e">>, <<"T","a","g",":">>, <<"H","a","r","e","m">>, <<"S","e","i","n","e","n">>, <<"J","o","s","e","i">>,
       <<"M","e","c","h","a">>, <<"S","p","o","r","t","s">>, <<"H","o","r","r","o","r">>, <<"M","y","s","t","e","r","y">>, <<"M","u","s","i","c">>, <<"C","o","o","k","i","n","g">> >>
TagsPage(p) ==
    [EmptyDoc EXCEPT
        !.title_tag = Some(<<"T","a","g","s">>),
        !.keywords = IF p.kw = 0 THEN None ELSE Some(Join(Take(KeywordPool, p.kw), <<",">>)),
        !.og_type = IF p.extra THEN Some(<<" ","B","o","o","k"," ">>) ELSE None,
        !.genre = [i \in 1..13 |->
                      IF i = 1 THEN Take(GenrePool, p.genre)
                      ELSE IF i = 2 /\ p.extra THEN <<<<"P","s","y","c","h","o","l","o","g","i","c","a","l">>, <<"c","a","t","e","g","o","r","y",":"," ","W","u","x","i","a">>>>
                      ELSE <<>>],
        !.ld_json = IF p.extra
                    THEN << [ok |-> TRUE, genre |-> <<Some(<<"T","h","r","i","l","l","e","r">>), None, Some(<<"W","U","X","I","A">>)>>],
                            [ok |-> FALSE, genre |-> <<Some(<<"U","n","p","a","r","s","e","d">>)>>] >>
                    ELSE <<>>,
        !.text = IF p.extra
                 THEN <<"G","e","n","r","e","s",":"," ","S","l","i","c","e"," ","o","f"," ","L","i","f","e",","," ","T","r","a","g","e","d","y",","," ","o","n","l","i","n","e",","," ","G","o","r","e","\n","T","y","p","e",":"," ","W","e","b"," ","N","o","v","e","l","|"," ">>
                 ELSE <<"N","o"," ","l","a","b","e","l","s"," ","h","e","r","e">>]

\* ---- pages for the comments
MaxReviews == 2
MaxListed == 17
MaxGroup == 16

\* the i-th .w-review block: without a text element (its paragraphs are read after
\* decompose), with one, or with one that repeats the block before it in other case
\* and spacing
review_el(i) ==
    [author |-> Some(<<"r","e","a","d","e","r">> \o ToStr(i)),
     body |-> IF i % 3 = 1 THEN None
              ELSE IF i % 3 = 2
              THEN Some(<<"T","h","e"," ","b","o","d","y"," ","o","f"," ","r","e","v","i","e","w"," ">> \o ToStr(i) \o <<" ","i","s"," ","l","o","n","g"," ","e","n","o","u","g","h"," ","t","o"," ","b","e"," ","k","e","p","t">>)
              ELSE Some(<<"T","H","E"," "," ","B","O","D","Y"," ","o","f"," ","r","e","v","i","e","w"," ">> \o ToStr(i - 1) \o <<" "," ","i","s"," ","l","o","n","g"," ","e","n","o","u","g","h"," ","t","o"," ","b","e"," ","k","e","p","t">>),
     date |-> Some(<<"M","a","y"," ">> \o ToStr(i)),
     date_in_meta |-> i % 3 = 1,
     children |->
        << [cls |-> "meta", text |-> <<"R","a","t","e","d"," ","i","t"," ","5"," ","s","t","a","r","s">>],
           [cls |-> "p", text |-> <<"P","a","r","a","g","r","a","p","h"," ">> \o ToStr(i)
                                   \o <<" ","o","f"," ","t","h","e"," ","r","e","v","i","e","w",","," ","w","h","i","c","h"," ","i","s"," ","l","o","n","g","e","r"," ","t","h","a","n"," ","f","i","f","t","y"," ","c","h","a","r","a","c","t","e","r","s">>],
           [cls |-> "p", text |-> <<"t","h","a","n","k","s">>] >>]

\* the i-th element of the review list; the second repeats the first in its first 80
\* characters
listed_el(i) ==
    IF i = 2
    THEN <<"L","i","s","t","e","d"," ","r","e","v","i","e","w"," ","1"," ","s","a","y","s"," ","t","h","a","t"," ","t","h","e"," ","s","t","o","r","y"," ","i","s"," ","s","l","o","w"," ","a","t"," ","f","i","r","s","t"," ","a","n","d"," ","t","h","e","n"," ","g","e","t","s"," ","m","u","c","h"," ","b","e","t","t","e","r",","," ","f","a","s","t">>
    ELSE <<"L","i","s","t","e","d"," ","r","e","v","i","e","w"," ">> \o ToStr(i)
         \o <<" ","s","a","y","s"," ","t","h","a","t"," ","t","h","e"," ","s","t","o","r","y"," ","i","s"," ","s","l","o","w"," ","a","t"," ","f","i","r","s","t"," ","a","n","d"," ","t","h","e","n"," ","g","e","t","s"," ","m","u","c","h"," ","b","e","t","t","e","r",","," ","r","e","a","l","l","y">>

\* a text of n characters
Padded(head, n) == head \o [i \in 1..n - Len(head) |-> "y"]

\* the i-th element of a generic selector: too short, a prompt, or a comment; the
\* fourth repeats the third in other case; the fifth to the fourteenth are of 30, 31,
\* 29, 2000, 1999 and 2001 characters and with a prompt after, across and before the
\* 50th character
comment_text(i) ==
    CASE i = 1 -> <<"N","i","c","e">>
      [] i = 2 -> <<"L","o","g"," ","i","n"," ","t","o"," ","l","e","a","v","e"," ","y","o","u","r"," ","o","w","n"," ","c","o","m","m","e","n","t"," ","o","n"," ","t","h","i","s"," ","c","h","a","p","t","e","r">>
      [] i = 4 -> <<"a"," ","C","O","M","M","E","N","T"," ","n","u","m","b","e","r","e","d"," ","3"," "," "," ","w","i","t","h"," ","m","o","r","e"," ","t","h","a","n"," ","t","h","i","r","t","y"," ","c","h","a","r","a","c","t","e","r","s">>
      [] i = 5 -> <<"A"," ","c","o","m","m","e","n","t"," ","o","f"," ","t","h","i","r","t","y"," ","c","h","a","r","a","c","t","e","r","s">>
      [] i = 6 -> <<"A"," ","c","o","m","m","e","n","t"," ","o","f"," ","t","h","i","r","t","y","-","o","n","e"," ","l","e","t","t","e","r","s">>
      [] i = 7 -> <<"A"," ","c","o","m","m","e","n","t"," ","o","f"," ","t","w","e","n","t","y","-","n","i","n","e"," ","c","h","a","r">>
      [] i = 8 -> Padded(<<"C","o","m","m","e","n","t"," ","A"," ">>, 2000)
      [] i = 10 -> Padded(<<"C","o","m","m","e","n","t"," ","B"," ">>, 1999)
      [] i = 11 -> Padded(<<"C","o","m","m","e","n","t"," ","C"," ">>, 2001)
      [] i = 12 -> <<"F","i","f","t","y"," ","c","h","a","r","a","c","t","e","r","s"," ","o","f"," ","p","r","a","i","s","e"," ","c","o","m","e"," ","b","e","f","o","r","e"," ","t","h","e"," ","c","a","l","l"," ","t","o"," ","r","e","g","i","s","t","e","r"," ","f","o","r"," ","m","o","r","e">>
      [] i = 13 -> <<"R","e","a","d","e","r","s"," ","o","f"," ","t","h","i","s"," ","s","t","o","r","y"," ","a","r","e"," ","a","s","k","e","d"," ","h","e","r","e"," ","t","o"," ","p","l","e","a","s","e"," ","r","e","g","i","s","t","e","r"," ","b","e","f","o","r","e"," ","r","e","a","d","i","n","g">>
      [] i = 14 -> <<"P","l","e","a","s","e"," ","S","I","G","N"," ","U","P"," ","b","e","f","o","r","e"," ","y","o","u"," ","c","o","m","m","e","n","t"," ","o","n"," ","t","h","i","s"," ","c","h","a","p","t","e","r"," ","o","f"," ","t","h","e"," ","s","t","o","r","y">>
      [] OTHER -> <<"A"," ","c","o","m","m","e","n","t"," ","n","u","m","b","e","r","e","d"," ">> \o ToStr(i) \o <<" ","w","i","t","h"," ","m","o","r","e"," ","t","h","a","n"," ","t","h","i","r","t","y"," ","c","h","a","r","a","c","t","e","r","s">>
comment_el(i) ==
    [text |-> comment_text(i),
     authors |-> <<None, IF i % 2 = 1 THEN Some(<<"a","m","y">>) ELSE None, None, Some(<<"z","e","d">>), None>>]

\* the text of the count element, when the page has one
count_text(c) == IF c = 1 THEN Some(<<"1","2">>) ELSE IF c = 2 THEN Some(<<"N","o"," ","r","e","v","i","e","w","s"," ","y","e","t">>) ELSE None

\* the page text outside the review blocks: without a count pattern, with one, or
\* with one after the first PageTextLen characters
page_text(t) ==
    IF t = 1 THEN <<"T","h","e","r","e"," ","a","r","e"," ","3"," ","C","o","m","m","e","n","t","s">>
    ELSE IF t = 2 THEN [i \in 1..PageTextLen |-> "x"] \o <<"3"," ","c","o","m","m","e","n","t","s">>
    ELSE <<"R","a","t","i","n","g"," ","1","2">>

CommentsPage(p) ==
    [EmptyDoc EXCEPT
        !.title_tag = Some(<<"C","o","m","m","e","n","t","s">>),
        !.reviews = [i \in 1..p.reviews |-> review_el(i)],
        !.review_list = [i \in 1..p.listed |-> listed_el(i)],
        !.comment_els = [i \in 1..8 |->
                            IF i = 1 THEN <<comment_el(1)>>
                            ELSE IF i = 3 THEN [k \in 1..p.group |-> comment_el(k)]
                            ELSE IF i = 4 THEN <<comment_el(9)>>
                            ELSE <<>>],
        !.count_el = count_text(p.count),
        !.text = page_text(p.text) \o <<" ">> \o count_text(p.count).v]

\* a page on which no comment or review selector matches anything
BarePage(p) ==
    [EmptyDoc EXCEPT !.count_el = count_text(p.count),
                     !.text = page_text(p.text) \o <<" ">> \o count_text(p.count).v]

\* ---- pages for the image: the source src of ImagePool at one step of the cascade,
\* the steps before it present but empty
ImagePool ==
    << <<"/","c","o","v","e","r","s","/","x",".","j","p","g">>, <<"x",".","j","p","g">>, <<".",".","/","u","p",".","p","n","g">>, <<"?","s","i","z","e","=","2">>, <<"/","/","c","d","n",".","e","x","a","m","p","l","e","/","x",".","p","n","g">>,
       <<"h","t","t","p","s",":","/","/","c","d","n",".","e","x","a","m","p","l","e","/","x",".","p","n","g">>, <<"h","t","t","p",":","/","/","a",".","e","x","a","m","p","l","e","/","c",".","g","i","f">>,
       <<"d","a","t","a",":","i","m","a","g","e","/","p","n","g",";","b","a","s","e","6","4",",","A","A">>, <<"m","a","i","l","t","o",":","m","e","@","e","x","a","m","p","l","e",".","c","o","m">>, <<"h","t","t","p",":","x",".","j","p","g">>, <<" ","y",".","p","n","g"," ">> >>
ImagePage(p) ==
    [EmptyDoc EXCEPT
        !.title_tag = Some(<<"I","m","a","g","e">>),
        !.og_image = IF p.step = 1 THEN Some(ImagePool[p.src])
                     ELSE IF p.step = 3 THEN Some(<<" "," ">>) ELSE None,
        !.twitter_image = IF p.step = 2 THEN Some(ImagePool[p.src]) ELSE None,
        !.schema_image = IF p.step = 3 THEN Some(ImagePool[p.src])
                         ELSE IF p.step = 4 THEN Some(<<>>) ELSE None,
        !.cover = [i \in 1..12 |->
                      IF p.step = 4 /\ i = 3 THEN Some(ImagePool[p.src])
                      ELSE IF i = 7 THEN Some(<<"/","l","a","t","e","r",".","p","n","g">>)
                      ELSE IF i = 1 THEN Some(<<>>) ELSE None]]

\* a page whose only review block has no text element: its .userank child reads
\* "12 reviews" and its single paragraph is short
Stripped ==
    [EmptyDoc EXCEPT
        !.title_tag = Some(<<"R","e","v","i","e","w","s">>),
        !.reviews = << [author |-> Some(<<"r","e","a","d","e","r">>), body |-> None, date |-> None,
                        date_in_meta |-> FALSE,
                        children |-> << [cls |-> "meta", text |-> <<"1","2"," ","r","e","v","i","e","w","s">>],
                                        [cls |-> "p", text |-> <<"t","h","a","n","k","s">>] >>] >>,
        !.text = <<"L","a","t","e","s","t"," ">>]

Page(p) ==
    CASE p.kind = "MoonBlade" -> MoonBlade
      [] p.kind = "Stripped" -> Stripped
      [] p.kind = "Titled" -> Titled
      [] p.kind = "HugeTotal" -> HugeTotal
      [] p.kind = "tags" -> TagsPage(p)
      [] p.kind = "comments" -> CommentsPage(p)
      [] p.kind = "bare" -> BarePage(p)
      [] p.kind = "image" -> ImagePage(p)
      [] OTHER -> EmptyDoc

\* ------------------------------------------------------------ api_scrape_url

Reqs == {1, 2}

\* what a GET meets: a response with a status, or an exception
Ok(status) == [exc |-> "", status |-> status]
Exc(e) == [exc |-> e, status |-> 0]
NA == Exc("na")

VARIABLES
    live,       \* the requests being served
    input,      \* input[r]: the url field of the request body
    net,        \* net[r]: what the network and the page will answer to request r
    seed,       \* seed[r]: the hash seed of the process serving request r
    pc,         \* pc[r]: where api_scrape_url is
    url,        \* url[r]: the local url, after line 547
    attempts,   \* attempts[r]: the GETs issued, in order
    response,   \* response[r]: the local response (its content: the page served)
    exc,        \* exc[r]: the class of the exception being handled
    probes,     \* probes[r]: the HEAD requests try_fetch_novelupdates_image issued
    result,     \* result[r]: the JSON response of the request
    db,         \* the database of models.py: its statuses, reading materials and tags
    session     \* session[w]: the request worker w is handling, and its db.session

vars ==
    <<live, input, net, seed, pc, url, attempts, response, exc, probes, result, db, session>>

NoResponse == [status |-> 0, url |-> <<>>, page |-> NoPage]
NoResult ==
    [kind |-> "none", code |-> 0, error |-> "", partial |-> FALSE, via |-> "none",
     data |-> NoData]
Failure(code, error) == [NoResult EXCEPT !.kind = "error", !.code = code, !.error = error]

\* variant: the url left as submitted, without lines 546-547
as_submitted(u) == u

\* lines 545-547
normalize(u) == IF StartsWith(u, HTTP) \/ StartsWith(u, HTTPS) THEN u ELSE HTTPS \o u

\* variant: the netloc is not looked at, without lines 552-553
validate_unchecked(u, parsed) ==
    [url |-> u, outcome |-> IF parsed.err THEN "raises" ELSE "ok"]

\* lines 549-553: urlparse raising is handled at line 659; an empty netloc is refused
validate_parsed(u, parsed) ==
    [url |-> u,
     outcome |-> IF parsed.err THEN "raises" ELSE IF parsed.netloc = <<>> THEN "invalid" ELSE "ok"]
validate_url(u) == validate_parsed(u, urlparse(u))
\* lines 540-553, for the stripped url field
validate(stripped) ==
    IF stripped = <<>> THEN [url |-> <<>>, outcome |-> "required"]
    ELSE validate_url(normalize(stripped))

Validated(r, v) ==
    /\ url' = [url EXCEPT ![r] = v.url]
    /\ pc' = [pc EXCEPT ![r] = IF v.outcome = "ok" THEN "primary"
                               ELSE IF v.outcome = "raises" THEN "except" ELSE "done"]
    /\ exc' = [exc EXCEPT ![r] = IF v.outcome = "raises" THEN "Exception" ELSE @]
    /\ result' = [result EXCEPT ![r] =
                    IF v.outcome = "required" THEN Failure(400, "URL is required")
                    ELSE IF v.outcome = "invalid" THEN Failure(400, "Invalid URL")
                    ELSE @]

\* lines 539-553: the url is read, completed and validated
Validate(r) ==
    /\ pc[r] = "start"
    /\ Validated(r, validate(Strip(input[r])))
    /\ UNCHANGED <<db, session, live, input, net, seed, attempts, response, probes>>

\* variant: the page and the final url are kept process-wide, and those of the first
\* request are served to every request
answer_shared(r, status) ==
    [status |-> status,
     url |-> IF net[1].final.some THEN net[1].final.v ELSE url[r],
     page |-> net[1].page]

\* the response a GET of request r gets when the server answers with status
Answer(r, status) ==
    [status |-> status,
     url |-> IF net[r].final.some THEN net[r].final.v ELSE url[r],
     page |-> net[r].page]

\* session.get / scraper.get answered by outcome: a response with a status, or an
\* exception raised
Get(r, kind, outcome, onRaise) ==
    /\ attempts' = [attempts EXCEPT ![r] = Append(@, [kind |-> kind, target |-> url[r]])]
    /\ IF outcome.exc # ""
       THEN /\ onRaise
            /\ UNCHANGED response
       ELSE /\ response' = [response EXCEPT ![r] = Answer(r, outcome.status)]
            /\ exc' = exc
            /\ pc' = [pc EXCEPT ![r] = IF kind = "primary" /\ outcome.status = 403
                                       THEN "cloudscraper" ELSE "raise_for_status"]

\* variant: every requests exception is handled at line 653, without the handler of
\* line 647
raise_request_exception(r, outcome) ==
    /\ exc' = [exc EXCEPT ![r] = "RequestException"]
    /\ pc' = [pc EXCEPT ![r] = "except"]

\* a requests exception leaves the try block for its handler
Raise(r, outcome) ==
    /\ exc' = [exc EXCEPT ![r] = IF outcome.exc = "timeout" THEN "Timeout"
                                 ELSE "RequestException"]
    /\ pc' = [pc EXCEPT ![r] = "except"]

\* lines 572-573: the primary attempt
Primary(r) ==
    /\ pc[r] = "primary"
    /\ Get(r, "primary", net[r].a1, Raise(r, net[r].a1))
    /\ UNCHANGED <<db, session, live, input, net, seed, url, probes, result>>

\* lines 576-584: after a 403, cloudscraper; whatever it raises (the import too)
\* leads to the attempt with the simple headers
Cloudscraper(r) ==
    /\ pc[r] = "cloudscraper"
    /\ IF net[r].a2.exc = "unavailable"
       THEN /\ pc' = [pc EXCEPT ![r] = "simple"]
            /\ UNCHANGED <<attempts, response, exc>>
       ELSE Get(r, "cloudscraper", net[r].a2,
                exc' = exc /\ pc' = [pc EXCEPT ![r] = "simple"])
    /\ UNCHANGED <<db, session, live, input, net, seed, url, probes, result>>

\* variant: no attempt with the simple headers, the except clause of line 583 passes
no_simple(r) ==
    /\ pc[r] = "simple"
    /\ pc' = [pc EXCEPT ![r] = "raise_for_status"]
    /\ UNCHANGED <<db, session, live, input, net, seed, url, attempts, response, exc, probes, result>>

\* lines 585-589: the attempt with the simple headers
Simple(r) ==
    /\ pc[r] = "simple"
    /\ Get(r, "simple", net[r].a3, Raise(r, net[r].a3))
    /\ UNCHANGED <<db, session, live, input, net, seed, url, probes, result>>

\* line 591
RaiseForStatus(r) ==
    /\ pc[r] = "raise_for_status"
    /\ IF response[r].status >= 400
       THEN /\ exc' = [exc EXCEPT ![r] = "RequestException"]
            /\ pc' = [pc EXCEPT ![r] = "except"]
       ELSE /\ pc' = [pc EXCEPT ![r] = "extract"]
            /\ UNCHANGED exc
    /\ UNCHANGED <<db, session, live, input, net, seed, url, attempts, response, probes, result>>

\* lines 632-645: the payload; raises is extract_chapter_info raising (line 624)
payload(title, description, image_url, chapter, tags, commented, final_url) ==
    [raises |-> chapter.raises,
     data |-> [title |-> title,
               description |-> description,
               image_url |-> image_url,
               chapter_current |-> chapter.current,
               chapter_total |-> chapter.total,
               suggested_tags |-> tags,
               has_comments |-> TRUE,
               comments |-> commented.comments,
               total_comments |-> commented.total,
               url |-> final_url]]

\* lines 608-645, once the title is known
scrape_titled(doc, final_url, request_url, hash_seed, title) ==
    payload(title,
            extract_description(doc),
            extract_image(doc, final_url),
            extract_chapter_info(doc, request_url, title),
            extract_suggested_tags(doc, request_url, hash_seed),
            extract_comments(doc, final_url),
            final_url)

\* lines 593-645: what the extractors make of the parsed page
scrape(doc, final_url, request_url, hash_seed) ==
    scrape_titled(doc, final_url, request_url, hash_seed, extract_title(doc))

\* variant: the response of lines 632-645 marked partial
success_marked(data) ==
    [kind |-> "ok", code |-> 200, error |-> "", partial |-> TRUE, via |-> "extract",
     data |-> data]

\* lines 632-645
success_result(data) ==
    [kind |-> "ok", code |-> 200, error |-> "", partial |-> FALSE, via |-> "extract",
     data |-> data]

Extracted(r, scraped) ==
    /\ exc' = [exc EXCEPT ![r] = IF scraped.raises THEN "Exception" ELSE @]
    /\ pc' = [pc EXCEPT ![r] = IF scraped.raises THEN "except" ELSE "done"]
    /\ result' = [result EXCEPT ![r] = IF scraped.raises THEN @ ELSE success_result(scraped.data)]

\* lines 593-645: the page is parsed and the extractors run; int() raising in
\* extract_chapter_info leaves for the handler of line 659
Extract(r) ==
    /\ pc[r] = "extract"
    /\ Extracted(r, scrape(Page(response[r].page), response[r].url, url[r], seed[r]))
    /\ UNCHANGED <<db, session, live, input, net, seed, url, attempts, response, probes>>

\* lines 652, 658, 663: the error each handler returns when there is no fallback
handler_failure(e) ==
    IF e = "Timeout" THEN Failure(408, "Request timed out")
    ELSE IF e = "RequestException" THEN Failure(400, "Failed to fetch URL")
    ELSE Failure(500, "Error processing URL")

\* lines 651, 657, 662
fallback_result(data) ==
    [kind |-> "ok", code |-> 200, error |-> "", partial |-> TRUE, via |-> "fallback",
     data |-> data]

Handled(r, fallback) ==
    /\ pc' = [pc EXCEPT ![r] = IF ~fallback.none /\ fallback.probe THEN "probe" ELSE "done"]
    /\ result' = [result EXCEPT ![r] =
                    IF fallback.none THEN handler_failure(exc[r])
                    ELSE IF fallback.probe THEN @
                    ELSE fallback_result(fallback.data)]

\* lines 647-663 with extract_from_url up to the CDN probe
Except(r) ==
    /\ pc[r] = "except"
    /\ Handled(r, extract_from_url(url[r]))
    /\ UNCHANGED <<db, session, live, input, net, seed, url, attempts, response, exc, probes>>

\* variant: any response to the HEAD request is taken for the image, without the
\* test of line 742
probed_any_status(r, fallback, img_url, k, n) ==
    /\ probes' = [probes EXCEPT ![r] = Append(@, img_url)]
    /\ pc' = [pc EXCEPT ![r] = IF net[r].head[k] # 0 \/ k = n THEN "done" ELSE @]
    /\ result' = [result EXCEPT ![r] =
                    IF net[r].head[k] # 0
                    THEN fallback_result([fallback.data EXCEPT !.image_url = Some(img_url)])
                    ELSE IF k = n THEN fallback_result(fallback.data)
                    ELSE @]

\* the HEAD request for img_url, the k-th of n
Probed(r, fallback, img_url, k, n) ==
    /\ probes' = [probes EXCEPT ![r] = Append(@, img_url)]
    /\ pc' = [pc EXCEPT ![r] = IF net[r].head[k] = 200 \/ k = n THEN "done" ELSE @]
    /\ result' = [result EXCEPT ![r] =
                    IF net[r].head[k] = 200
                    THEN fallback_result([fallback.data EXCEPT !.image_url = Some(img_url)])
                    ELSE IF k = n THEN fallback_result(fallback.data)
                    ELSE @]
\* variant: the loop of line 739 starts over when the candidates are used up
probe_again(r, fallback, patterns, k) ==
    Probed(r, fallback, patterns[((k - 1) % Len(patterns)) + 1],
           ((k - 1) % Len(patterns)) + 1, Len(patterns) + 1)
ProbeNext(r, fallback, patterns, k) == Probed(r, fallback, patterns[k], k, Len(patterns))
ProbeFor(r, fallback) ==
    ProbeNext(r, fallback, cdn_patterns(fallback.slug), Len(probes[r]) + 1)

\* lines 739-745 of try_fetch_novelupdates_image: one HEAD request; then, when the
\* loop ends, the rest of extract_from_url and of the handler
Probe(r) ==
    /\ pc[r] = "probe"
    /\ ProbeFor(r, extract_from_url(url[r]))
    /\ UNCHANGED <<db, session, live, input, net, seed, url, attempts, response, exc>>

Step(r) ==
    \/ Validate(r)
    \/ Primary(r)
    \/ Cloudscraper(r)
    \/ Simple(r)
    \/ RaiseForStatus(r)
    \/ Extract(r)
    \/ Except(r)
    \/ Probe(r)

\* a request that is not being served has pc "idle" and takes no step
Next == \E r \in Reqs : Step(r)

\* ---- the store: the tables of models.py and the handlers of app.py that write to
\* them.  A handler runs in a worker; what it reads it reads from the committed rows
\* (and from its own pending rows), and what it writes is written by its commit.
NumWorkers == 2
Workers == 1..NumWorkers
MaxItems == 1
MaxStatuses == 3
MaxTagRows == 2
\* the default statuses of init_default_statuses that are still in the table
DefaultStatuses == 2
\* the requests that are let in, all workers together
MaxRequests == 4

scraping == <<live, input, net, seed, pc, url, attempts, response, exc, probes, result>>

\* the form fields and JSON values submitted
Titles == {<<>>, <<" ","D","u","n","e"," ">>}
StatusFields == {<<>>, <<"2">>, <<"9">>, <<"x">>}
TagFields == {<<>>, <<"F","o","o",","," ","b","a","r">>}
TagLists == {<<>>, <<<<"F","O","O">>>>}
TagNames == {<<>>, <<" ","f","o","o"," ">>, <<"f","_","o">>}
StatusNames == {<<>>, <<"O","n"," ","H","o","l","d">>, <<"R","e","a","d","i","n","g">>}
DisplayNames == {<<>>, <<"O","n"," ","h","o","l","d">>}
Fields == {"title", "status_id", "tags", "rating"}

\* lines 28-40
defaults ==
    {[id |-> 1, name |-> <<"t","o","_","r","e","a","d">>, position |-> 1],
     [id |-> 2, name |-> <<"r","e","a","d","i","n","g">>, position |-> 2],
     [id |-> 3, name |-> <<"c","o","m","p","l","e","t","e","d">>, position |-> 3],
     [id |-> 4, name |-> <<"o","n","_","h","o","l","d">>, position |-> 4],
     [id |-> 5, name |-> <<"d","r","o","p","p","e","d">>, position |-> 5]}
\* the first DefaultStatuses of them
Defaults == {s \in defaults : s.id <= DefaultStatuses}

\* the database after db.create_all() and init_default_statuses(); foreign_keys is
\* whether the engine enforces the ForeignKey of status_id (SQLite does not unless
\* asked to, other engines do)
Fresh(fk) == [statuses |-> Defaults, items |-> {}, tags |-> {}, foreign_keys |-> fk]

\* the id the table gives a new row
NextId(rows) == MaxOr({row.id : row \in rows}, 0) + 1
Ids(rows) == {row.id : row \in rows}
RowOf(rows, id) == CHOOSE row \in rows : row.id = id

\* int(value) for the values submitted: a run of decimal digits is converted, any
\* other text raises ValueError
IsNumber(f) == f # <<>> /\ \A i \in 1..Len(f) : f[i] \in DigitSet
\* int(status_id) if status_id else None
status_of(f) ==
    [raises |-> f # <<>> /\ ~IsNumber(f),
     id |-> IF IsNumber(f) THEN SomeInt(ParseInt(f)) ELSE NoInt]

\* SQL LIKE of a pattern over a text: % is any run of characters, _ any one
RECURSIVE like(_, _)
like(p, s) ==
    IF p = <<>> THEN s = <<>>
    ELSE IF Head(p) = "%" THEN \E k \in 0..Len(s) : like(Tail(p), SubSeq(s, k + 1, Len(s)))
    ELSE s # <<>> /\ (Head(p) = "_" \/ Head(p) = Head(s)) /\ like(Tail(p), Tail(s))
\* Tag.name.ilike(name): lower(name column) LIKE lower(pattern)
ilike(column, pattern) == like(Lower(pattern), Lower(column))

\* Tag.query.filter(Tag.name.ilike(name)).first(): any one of the rows that match
\* (the query has no order_by), none when no row matches
NoRow == [kind |-> "none", id |-> 0]
Matches(rows, name) == {[kind |-> "row", id |-> row.id] : row \in {t \in rows : ilike(t.name, name)}}
\* the same query inside the tag loop: autoflush makes the session's own new tags
\* visible to it
Pending(new, name) == {[kind |-> "pending", id |-> k] : k \in {i \in 1..Len(new) : ilike(new[i], name)}}
OrNone(found) == IF found = {} THEN {NoRow} ELSE found
first(rows, name) == OrNone(Matches(rows, name))
first_flushed(rows, new, name) == OrNone(Matches(rows, name) \cup Pending(new, name))

\* a worker that handles no request
Idle ==
    [op |-> "", pc |-> "idle", field |-> "", id |-> 0, title |-> <<>>, status_id |-> NoInt,
     names |-> <<>>, has |-> {}, new |-> <<>>, name |-> <<>>, served |-> 0]
\* the handler has read its request; what is left is its tag loop and its commit
ItemTx(op, field, id, title, status_id, names) ==
    [Idle EXCEPT !.op = op, !.pc = IF names = <<>> THEN "commit" ELSE "tags", !.field = field,
                 !.id = id, !.title = title, !.status_id = status_id, !.names = names]
RowTx(op, id, name) == [Idle EXCEPT !.op = op, !.pc = "commit", !.id = id, !.name = name]

\* lines 210-212, 256-258: the tag names of the form field
form_tags(field) == IF Strip(field) = <<>> THEN <<>> ELSE Split(Strip(field), ",")

\* the requests let in so far
RECURSIVE ServedBy(_)
ServedBy(ws) == IF ws = {} THEN 0 ELSE session[Max(ws)].served + ServedBy(ws \ {Max(ws)})
\* worker w is free and one more request is let in
Free(w) == session[w].pc = "idle" /\ ServedBy(Workers) < MaxRequests
Begin(w, tx) == session' = [session EXCEPT ![w] = [tx EXCEPT !.served = session[w].served + 1]]
\* the next turn of the request the worker is handling
Turn(w, tx) == session' = [session EXCEPT ![w] = tx]

\* lines 186-207: the form is read; an empty title is refused, int() of the status_id
\* field may raise
added(w, title, status, names) ==
    IF title = <<>> \/ status.raises THEN UNCHANGED session
    ELSE Begin(w, ItemTx("add", "all", 0, title, status.id, names))
add(w) ==
    /\ Free(w)
    /\ Cardinality(db.items) < MaxItems
    /\ Cardinality(db.tags) < MaxTagRows
    /\ \E t \in Titles, s \in StatusFields, g \in TagFields :
          added(w, Strip(t), status_of(s), form_tags(g))
    /\ UNCHANGED <<db, scraping>>

\* lines 232-255: get_or_404, then as add; item.tags.clear()
edited(w, id, title, status, names) ==
    IF id \notin Ids(db.items) \/ title = <<>> \/ status.raises THEN UNCHANGED session
    ELSE Begin(w, ItemTx("edit", "all", id, title, status.id, names))
edit(w) ==
    /\ Free(w)
    /\ Cardinality(db.tags) < MaxTagRows
    /\ \E id \in 1..MaxItems, t \in Titles, s \in StatusFields, g \in TagFields :
          edited(w, id, Strip(t), status_of(s), form_tags(g))
    /\ UNCHANGED <<db, scraping>>

\* lines 1127-1164: one field of one item
update_title(w, id, value) ==
    IF Strip(value) = <<>> THEN UNCHANGED session
    ELSE Begin(w, ItemTx("api_update_item", "title", id, Strip(value), NoInt, <<>>))
update_status(w, id, status) ==
    IF status.raises THEN UNCHANGED session
    ELSE Begin(w, ItemTx("api_update_item", "status_id", id, <<>>, status.id, <<>>))
update_tags(w, id, names) == Begin(w, ItemTx("api_update_item", "tags", id, <<>>, NoInt, names))
updated(w, id, field, title, status, names) ==
    IF id \notin Ids(db.items) THEN UNCHANGED session
    ELSE IF field = "title" THEN update_title(w, id, title)
    ELSE IF field = "status_id" THEN update_status(w, id, status)
    ELSE IF field = "tags" THEN update_tags(w, id, names)
    ELSE UNCHANGED session
api_update_item(w) ==
    /\ Free(w)
    /\ Cardinality(db.tags) < MaxTagRows
    /\ \E id \in 1..MaxItems, f \in Fields, t \in Titles, s \in StatusFields, g \in TagLists :
          updated(w, id, f, t, status_of(s), g)
    /\ UNCHANGED <<db, scraping>>

\* lines 213-220, 259-266, 1156-1163: one turn of the tag loop
took(tx, tag_name, tag) ==
    IF tag.kind = "row" THEN [tx EXCEPT !.has = @ \cup {tag.id}]
    ELSE IF tag.kind = "pending" THEN tx
    ELSE [tx EXCEPT !.new = Append(@, tag_name)]
turned(tx) == [tx EXCEPT !.names = Tail(@), !.pc = IF Tail(tx.names) = <<>> THEN "commit" ELSE "tags"]
looked(w, tag_name) ==
    IF tag_name = <<>> THEN Turn(w, turned(session[w]))
    ELSE \E tag \in first_flushed(db.tags, session[w].new, tag_name) :
            Turn(w, turned(took(session[w], tag_name, tag)))
Lookup(w) ==
    /\ session[w].pc = "tags"
    /\ looked(w, Strip(Head(session[w].names)))
    /\ UNCHANGED <<db, scraping>>

\* lines 353-366: the name is normalized and looked up
status_name(field) == Replace(Lower(Strip(field)), " ", "_")
status_added(w, name, display_name) ==
    IF name = <<>> \/ display_name = <<>> \/ name \in {s.name : s \in db.statuses}
    THEN UNCHANGED session
    ELSE Begin(w, RowTx("add_status", 0, name))
add_status(w) ==
    /\ Free(w)
    /\ Cardinality(db.statuses) < MaxStatuses
    /\ \E n \in StatusNames, d \in DisplayNames : status_added(w, status_name(n), Strip(d))
    /\ UNCHANGED <<db, scraping>>

\* lines 399-406: get_or_404, and a status that is in use is kept
in_use(id) == \E item \in db.items : item.status_id = SomeInt(id)
delete_status(w) ==
    /\ Free(w)
    /\ \E id \in 1..MaxStatuses :
          IF id \notin Ids(db.statuses) \/ in_use(id) THEN UNCHANGED session
          ELSE Begin(w, RowTx("delete_status", id, <<>>))
    /\ UNCHANGED <<db, scraping>>

\* lines 426-439
tag_added(w, name, existing) ==
    IF name = <<>> \/ existing.kind = "row" THEN UNCHANGED session
    ELSE Begin(w, RowTx("add_tag", 0, name))
add_tag(w) ==
    /\ Free(w)
    /\ Cardinality(db.tags) < MaxTagRows
    /\ \E n \in TagNames : \E existing \in first(db.tags, Strip(n)) :
          tag_added(w, Strip(n), existing)
    /\ UNCHANGED <<db, scraping>>

\* lines 451-467: get_or_404; a match that is the tag itself is no obstacle
tag_edited(w, id, name, existing) ==
    IF id \notin Ids(db.tags) \/ name = <<>> \/ (existing.kind = "row" /\ existing.id # id)
    THEN UNCHANGED session
    ELSE Begin(w, RowTx("edit_tag", id, name))
edit_tag(w) ==
    /\ Free(w)
    /\ \E id \in 1..MaxTagRows, n \in TagNames : \E existing \in first(db.tags, Strip(n)) :
          tag_edited(w, id, Strip(n), existing)
    /\ UNCHANGED <<db, scraping>>

\* lines 517-528: an existing tag is returned as it is
tag_created(w, name, existing) ==
    IF name = <<>> \/ existing.kind = "row" THEN UNCHANGED session
    ELSE Begin(w, RowTx("api_create_tag", 0, name))
api_create_tag(w) ==
    /\ Free(w)
    /\ Cardinality(db.tags) < MaxTagRows
    /\ \E n \in TagNames : \E existing \in first(db.tags, Strip(n)) :
          tag_created(w, Strip(n), existing)
    /\ UNCHANGED <<db, scraping>>

\* ---- db.session.commit()
\* Tag.name and Status.name are unique=True: the names compared as they are written
Distinct(names) == \A i, j \in 1..Len(names) : names[i] = names[j] => i = j
unique_names(rows, names) == Distinct(names) /\ \A k \in 1..Len(names) : \A row \in rows : row.name # names[k]
\* the ForeignKey of status_id, where the engine enforces it
references(database, status_id) ==
    database.foreign_keys /\ status_id.some => status_id.n \in Ids(database.statuses)
NewTags(rows, names) == {[id |-> NextId(rows) + k - 1, name |-> names[k]] : k \in 1..Len(names)}

\* the reading material as the handler leaves it
written(tx, old, tags) ==
    [id |-> old.id,
     title |-> IF tx.field \in {"all", "title"} THEN tx.title ELSE old.title,
     status_id |-> IF tx.field \in {"all", "status_id"} THEN tx.status_id ELSE old.status_id,
     tags |-> IF tx.field \in {"all", "tags"} THEN tags ELSE old.tags]
NewItem(id) == [id |-> id, title |-> <<>>, status_id |-> NoInt, tags |-> {}]
item_before(database, tx) ==
    IF tx.op = "add" THEN NewItem(NextId(database.items)) ELSE RowOf(database.items, tx.id)
with_item(items, item) == {i \in items : i.id # item.id} \cup {item}

\* the commit of add, edit and api_update_item: the new tags and the reading material
\* are written together, or the IntegrityError leaves the tables as they were
commit_item(database, tx) ==
    IF unique_names(database.tags, tx.new) /\ references(database, tx.status_id)
    THEN [database EXCEPT
            !.tags = @ \cup NewTags(database.tags, tx.new),
            !.items = with_item(@, written(tx, item_before(database, tx),
                                           tx.has \cup Ids(NewTags(database.tags, tx.new))))]
    ELSE database

\* lines 441-443, 530-532
commit_tag(database, tx) ==
    IF unique_names(database.tags, <<tx.name>>)
    THEN [database EXCEPT !.tags = @ \cup NewTags(database.tags, <<tx.name>>)]
    ELSE database

\* lines 469-471: the row is renamed, if it is still there
renamed(database, tx, others) ==
    IF tx.id \in Ids(database.tags) /\ unique_names(others, <<tx.name>>)
    THEN [database EXCEPT !.tags = others \cup {[id |-> tx.id, name |-> tx.name]}]
    ELSE database
commit_rename(database, tx) == renamed(database, tx, {t \in database.tags : t.id # tx.id})

\* lines 368-371
commit_status(database, tx) ==
    IF unique_names(database.statuses, <<tx.name>>)
    THEN [database EXCEPT
            !.statuses = @ \cup {[id |-> NextId(@), name |-> tx.name,
                                  position |-> MaxOr({s.position : s \in @}, 0) + 1]}]
    ELSE database

\* lines 408-409: the row is deleted; an engine that enforces the foreign key refuses
\* while a reading material refers to it
commit_delete(database, tx) ==
    IF database.foreign_keys /\ \E item \in database.items : item.status_id = SomeInt(tx.id)
    THEN database
    ELSE [database EXCEPT !.statuses = {s \in @ : s.id # tx.id}]

committed(database, tx) ==
    IF tx.op \in {"add", "edit", "api_update_item"} THEN commit_item(database, tx)
    ELSE IF tx.op \in {"add_tag", "api_create_tag"} THEN commit_tag(database, tx)
    ELSE IF tx.op = "edit_tag" THEN commit_rename(database, tx)
    ELSE IF tx.op = "add_status" THEN commit_status(database, tx)
    ELSE commit_delete(database, tx)

Commit(w) ==
    /\ session[w].pc = "commit"
    /\ db' = committed(db, session[w])
    /\ Turn(w, [Idle EXCEPT !.served = session[w].served])
    /\ UNCHANGED scraping

\* ---- the views that group the reading materials by status
\* lines 78-97: the keys of status_map, and the key index looks an item up with
status_map(database) == {SomeInt(s.id) : s \in database.statuses} \cup {NoInt}
index_finds(database, item) == item.status_id \in status_map(database)
\* lines 144-161: the keys of grouped, and item.status_id if item.status_id else 0
grouped(database) == Ids(database.statuses) \cup {0}
search_key(item) == IF item.status_id.some /\ item.status_id.n # 0 THEN item.status_id.n ELSE 0
api_search_finds(database, item) == search_key(item) \in grouped(database)

Handle(w) ==
    \/ add(w)
    \/ edit(w)
    \/ api_update_item(w)
    \/ Lookup(w)
    \/ add_status(w)
    \/ delete_status(w)
    \/ add_tag(w)
    \/ edit_tag(w)
    \/ api_create_tag(w)
    \/ Commit(w)

StoreNext == \E w \in Workers : Handle(w)

\* ------------------------------------------------------------ the requests served

\* the url fields submitted: an optional scheme, a host, up to MaxSegs path segments,
\* an optional trailing slash with query and fragment
MaxSegs == 2
Prefixes == {<<>>, HTTPS}
Hosts == {<<>>, <<"e","x","a","m","p","l","e",".","c","o","m">>, <<"w","w","w",".","N","o","v","e","l","U","p","d","a","t","e","s",".","c","o","m">>, <<"[","v","6">>}
Segs == {<<"s","e","r","i","e","s">>, <<"t","h","e","-","c","r","a","z","y","-","y","o","u","n","g","-","m","a","s","t","e","r">>}
Tails == {<<>>, <<"/","?","p","a","g","e","=","2","#","c">>}

RECURSIVE Paths(_)
Paths(n) ==
    IF n = 0 THEN {<<>>}
    ELSE Paths(n - 1) \cup {p \o <<"/">> \o s : p \in Paths(n - 1), s \in Segs}

\* url fields without a scheme
Bare(n) == {h \o q \o t : h \in Hosts, q \in Paths(n), t \in Tails}
Inputs ==
    {p \o u : p \in Prefixes, u \in Bare(MaxSegs)}
    \cup {<<" ","h","t","t","p",":","/","/","E","x","a","m","p","l","e",".","c","o","m","/","M","y","_","B","O","O","K","-","o","n","e"," ">>, <<"e","x","a","m","p","l","e",".","c","o","m","/","a","/","-","-","-">>, <<" "," "," ">>}

CrazyUrl == <<"h","t","t","p","s",":","/","/","e","x","a","m","p","l","e",".","c","o","m","/","s","e","r","i","e","s","/","t","h","e","-","c","r","a","z","y","-","y","o","u","n","g","-","m","a","s","t","e","r">>
SeriesUrl == <<"h","t","t","p","s",":","/","/","w","w","w",".","n","o","v","e","l","u","p","d","a","t","e","s",".","c","o","m","/","s","e","r","i","e","s","/","m","o","o","n","-","b","l","a","d","e">>
BookUrl == <<"h","t","t","p","s",":","/","/","s","i","t","e",".","e","x","a","m","p","l","e","/","b","o","o","k","/","1">>
ChapterUrl == <<"h","t","t","p","s",":","/","/","s","i","t","e",".","e","x","a","m","p","l","e","/","b","o","o","k","/","c","h","a","p","t","e","r","5">>

\* the order of the attempts, and what each can meet
FetchFailures == {Ok(500), Exc("timeout"), Exc("connerr")}
FetchPaths ==
    {<<a, NA, NA>> : a \in {Ok(200)} \cup FetchFailures}
    \cup {<<Ok(403), a, NA>> : a \in {Ok(200), Ok(403), Ok(500)}}
    \cup {<<Ok(403), b, a>> : b \in {Exc("unavailable"), Exc("raises")},
                              a \in {Ok(200), Ok(403)} \cup FetchFailures}
Direct == <<Ok(200), NA, NA>>

\* the response the cascade ends with is a success
Fetched(fp) == Ok(200) \in {fp[1], fp[2], fp[3]}

\* what the two HEAD requests can meet (0: no response), when they are made at all
Heads(probe) ==
    IF probe THEN {<<200, 0>>} \cup {<<a, b>> : a \in {404, 0}, b \in {200, 404, 0}}
    ELSE {<<0, 0>>}
FewHeads(probe) == Heads(probe) \cap {<<0, 0>>, <<200, 0>>, <<404, 200>>}

\* the page makes line 624 raise, whatever the url is
PageRaises(p) == p.kind = "HugeTotal"

MkNet(fp, p, f, h) ==
    [a1 |-> fp[1], a2 |-> fp[2], a3 |-> fp[3], page |-> p, final |-> f, head |-> h]
NoNet == MkNet(<<NA, NA, NA>>, NoPage, None, <<0, 0>>)

\* the url passes lines 542-553, so that a GET is issued
Fetches(u) == validate(Strip(u)).outcome = "ok"
\* the handler of a failure of the url's fetch probes the CDN
Probes(u) == extract_from_url(normalize(Strip(u))).probe

\* a fetch that succeeds at once, and two that fail at once
QuickNets(probe) ==
    {MkNet(Direct, [kind |-> "MoonBlade"], None, <<0, 0>>)}
    \cup {MkNet(<<a, NA, NA>>, NoPage, None, h) :
             a \in {Ok(500), Exc("timeout")}, h \in FewHeads(probe)}

\* every course of the cascade; an answer that is never asked for is left at a fixed
\* value
AllNets(probe, pages, finals) ==
    {MkNet(fp, NoPage, None, h) : fp \in {x \in FetchPaths : ~Fetched(x)}, h \in Heads(probe)}
    \cup UNION {{MkNet(fp, p, f, h) :
                    fp \in {x \in FetchPaths : Fetched(x)}, f \in finals,
                    h \in Heads(probe /\ PageRaises(p))} : p \in pages}

NumSeeds == 2
Seeds == 0..NumSeeds - 1

TagsPages ==
    {[kind |-> "tags", kw |-> k, genre |-> g, extra |-> e] :
        k \in 0..MaxKeywords, g \in {0, 2, MaxGenres}, e \in BOOLEAN}
CommentsPages ==
    {[kind |-> "comments", reviews |-> r, listed |-> l, group |-> g, count |-> c, text |-> t] :
        r \in 0..MaxReviews, l \in {0, MaxListed}, g \in {0, 2, MaxGroup},
        c \in 0..2, t \in 0..1}
BarePages == {[kind |-> "bare", count |-> c, text |-> t] : c \in 0..2, t \in 0..2}
ImagePages ==
    {[kind |-> "image", step |-> s, src |-> i] : s \in 1..4, i \in 1..Len(ImagePool)}

\* one request
Single(u, n, s) ==
    [live |-> {1},
     input |-> [r \in Reqs |-> IF r = 1 THEN u ELSE <<>>],
     net |-> [r \in Reqs |-> IF r = 1 THEN n ELSE NoNet],
     seed |-> [r \in Reqs |-> IF r = 1 THEN s ELSE 0]]

\* two requests that meet the same answers
Twin(u1, u2, n, s1, s2) ==
    [live |-> {1, 2},
     input |-> [r \in Reqs |-> IF r = 1 THEN u1 ELSE u2],
     net |-> [r \in Reqs |-> n],
     seed |-> [r \in Reqs |-> IF r = 1 THEN s1 ELSE s2]]

\* a request for a page that is served at once
Served(u, p, f, s) == Single(u, MkNet(Direct, p, f, <<0, 0>>), s)

\* any url field, against a fetch that succeeds or fails at once
AnyInput ==
    UNION {{Single(u, n, 0) : n \in IF Fetches(u) THEN QuickNets(Probes(u)) ELSE {NoNet}} :
              u \in Inputs}

\* two urls, against every course of the cascade
AnyCourse ==
    UNION {{Single(u, n, 0) :
               n \in AllNets(Probes(u), {[kind |-> "MoonBlade"], [kind |-> "HugeTotal"]},
                             {None, Some(BookUrl)})} : u \in {CrazyUrl, SeriesUrl}}

\* the pages of the extractors, served at once
AnyPage ==
    {Served(BookUrl, p, None, s) : p \in TagsPages, s \in Seeds}
    \cup {Served(u, p, None, 0) : u \in {BookUrl, SeriesUrl}, p \in CommentsPages \cup BarePages \cup {[kind |-> "Stripped"]}}
    \cup {Served(BookUrl, p, f, 0) :
             p \in ImagePages, f \in {None, Some(<<"h","t","t","p","s",":","/","/","c","d","n",".","s","i","t","e",".","e","x","a","m","p","l","e","/","a","/","b","/">>)}}
    \cup {Served(u, p, Some(BookUrl), 0) :
             u \in {BookUrl, ChapterUrl, SeriesUrl},
             p \in {[kind |-> "MoonBlade"], [kind |-> "Titled"], NoPage}}

\* a page the extractors fail on, at urls without a path segment
Unparsed ==
    {Served(u, [kind |-> "HugeTotal"], None, 0) :
        u \in {<<"h","t","t","p","s",":","/","/","e","x","a","m","p","l","e",".","c","o","m">>, <<"e","x","a","m","p","l","e",".","c","o","m","/","?","p","a","g","e","=","2","#","c">>, <<"e","x","a","m","p","l","e",".","c","o","m","/","a","/","-","-","-">>}}

\* a url field without a scheme and the same with https:// before it
WithScheme ==
    UNION {{Twin(u, HTTPS \o u, n, 0, 0) :
               n \in IF Fetches(u) THEN QuickNets(Probes(u)) ELSE {NoNet}} :
              u \in Bare(1) \cup {<<" ","e","x","a","m","p","l","e",".","c","o","m","/","s","e","r","i","e","s"," ">>}}

\* two requests that meet answers of their own
Pair(u1, n1, u2, n2) ==
    [live |-> {1, 2},
     input |-> [r \in Reqs |-> IF r = 1 THEN u1 ELSE u2],
     net |-> [r \in Reqs |-> IF r = 1 THEN n1 ELSE n2],
     seed |-> [r \in Reqs |-> 0]]

\* two requests for two urls served at the same time, each with a course of its own
Together ==
    {Pair(CrazyUrl, MkNet(fp, [kind |-> "MoonBlade"], None, <<0, 0>>), SeriesUrl, n) :
        fp \in {Direct, <<Ok(403), Exc("raises"), Exc("timeout")>>},
        n \in {MkNet(Direct, [kind |-> "Titled"], Some(BookUrl), <<0, 0>>),
               MkNet(<<Ok(403), Exc("unavailable"), Ok(200)>>, [kind |-> "HugeTotal"], None,
                     <<404, 200>>),
               MkNet(<<Exc("timeout"), NA, NA>>, NoPage, None, <<0, 0>>)}}

\* the same request served twice, by processes of any two hash seeds
Twice ==
    {Twin(BookUrl, BookUrl, MkNet(Direct, p, None, <<0, 0>>), s1, s2) :
        p \in {[kind |-> "MoonBlade"], [kind |-> "tags", kw |-> 3, genre |-> 2, extra |-> FALSE]},
        s1 \in Seeds, s2 \in Seeds}

\* every course of the cascade that fails, at a url without a path segment
Refused ==
    {Single(<<"h","t","t","p","s",":","/","/","e","x","a","m","p","l","e",".","c","o","m">>, MkNet(fp, NoPage, None, <<0, 0>>), 0) :
        fp \in {x \in FetchPaths : ~Fetched(x)}}

Scenarios ==
    AnyInput \cup AnyCourse \cup AnyPage \cup WithScheme \cup Twice \cup Unparsed \cup Together
    \cup Refused

Init ==
    /\ \E s \in Scenarios :
          /\ live = s.live
          /\ input = s.input
          /\ net = s.net
          /\ seed = s.seed
    /\ pc = [r \in Reqs |-> IF r \in live THEN "start" ELSE "idle"]
    /\ url = [r \in Reqs |-> <<>>]
    /\ attempts = [r \in Reqs |-> <<>>]
    /\ response = [r \in Reqs |-> NoResponse]
    /\ exc = [r \in Reqs |-> ""]
    /\ probes = [r \in Reqs |-> <<>>]
    /\ result = [r \in Reqs |-> NoResult]
    /\ db = Fresh(FALSE)
    /\ session = [w \in Workers |-> Idle]

Spec == Init /\ [][Next]_vars

\* the store on its own: no URL is being scraped, and the workers handle the requests
\* that write to the tables
StoreInit ==
    /\ live = {}
    /\ input = [r \in Reqs |-> <<>>]
    /\ net = [r \in Reqs |-> NoNet]
    /\ seed = [r \in Reqs |-> 0]
    /\ pc = [r \in Reqs |-> "idle"]
    /\ url = [r \in Reqs |-> <<>>]
    /\ attempts = [r \in Reqs |-> <<>>]
    /\ response = [r \in Reqs |-> NoResponse]
    /\ exc = [r \in Reqs |-> ""]
    /\ probes = [r \in Reqs |-> <<>>]
    /\ result = [r \in Reqs |-> NoResult]
    /\ \E fk \in BOOLEAN : db = Fresh(fk)
    /\ session = [w \in Workers |-> Idle]

StoreSpec == StoreInit /\ [][StoreNext]_vars

\* ------------------------------------------------------------ properties

TypeOK ==
    /\ live \subseteq Reqs
    /\ \A r \in Reqs :
          /\ pc[r] \in {"idle", "start", "primary", "cloudscraper", "simple",
                        "raise_for_status", "extract", "except", "probe", "done"}
          /\ exc[r] \in {"", "Timeout", "RequestException", "Exception"}
          /\ result[r].kind \in {"none", "ok", "error"}
          /\ Len(attempts[r]) <= 3
          /\ Len(probes[r]) <= 2

\* the request has been answered
Done(r) == r \in live /\ pc[r] = "done"
\* ... with a payload
Answered(r) == Done(r) /\ result[r].kind = "ok"
\* ... made by the extractors from the page fetched
Scraped(r) == Answered(r) /\ exc[r] = ""
\* the handlers of lines 647-663 were entered after a GET was issued
FetchFailed(r) == Done(r) /\ attempts[r] # <<>> /\ exc[r] # ""

\* the authority of a URL that starts with a scheme and "//": what lies between the
\* "//" and the first "/", "?" or "#"
AfterScheme(u) == Find(u, <<":","/","/">>) + 3
Authority(u) == SubSeq(u, AfterScheme(u), FirstOf(u, {"/", "?", "#"}, AfterScheme(u)) - 1)
\* the URL of lines 545-547 for a url field
Normalised(field) ==
    IF StartsWith(Strip(field), HTTP) \/ StartsWith(Strip(field), HTTPS)
    THEN Strip(field) ELSE HTTPS \o Strip(field)
\* the url is absolute: it has a scheme and a host
IsAbsolute(u) == urlparse(u).scheme # <<>> /\ urlparse(u).netloc # <<>>
\* the path of the url has a segment that is not empty
HasSegment(u) == \E c \in Range(urlparse(u).path) : c # "/"

\* ---- C1
FallbackAnswer(r) ==
    /\ result[r].kind = "ok"
    /\ result[r].partial
    /\ result[r].data.title = Some(slug_title(url_slug(urlparse(url[r]).path)))
    /\ url[r] = CrazyUrl => result[r].data.title = Some(<<"T","h","e"," ","C","r","a","z","y"," ","Y","o","u","n","g"," ","M","a","s","t","e","r">>)

\* C1 as stated: whenever the fetch of a URL with a non-empty authority fails, the
\* response is a partial result whose title is derived from the URL path.
C1_AnyFailureGivesPartial ==
    \A r \in Reqs : FetchFailed(r) /\ Authority(url[r]) # <<>> => FallbackAnswer(r)

\* C1, amended: whenever the fetch of a URL with a non-empty authority fails and the
\* URL's path has a non-empty segment, the response is a partial result whose title is
\* the last such segment with "-" and "_" turned into spaces and every word
\* capitalised; when the path has no such segment the response is the error of the
\* failure (408, 400 or 500).
C1_FailureGivesPartial ==
    \A r \in Reqs :
        FetchFailed(r) /\ Authority(url[r]) # <<>> =>
            IF HasSegment(url[r]) THEN FallbackAnswer(r)
            ELSE result[r] = handler_failure(exc[r])

C1_Witness ==
    \E r \in Reqs :
        /\ FetchFailed(r)
        /\ exc[r] = "Timeout"
        /\ url[r] = CrazyUrl
        /\ result[r].partial
        /\ result[r].data.title = Some(<<"T","h","e"," ","C","r","a","z","y"," ","Y","o","u","n","g"," ","M","a","s","t","e","r">>)

\* ---- C2
\* C2: when the url field is not empty and the URL of lines 545-547 has an empty
\* authority, the request ends at once with the error "Invalid URL" (400): no GET is
\* issued, no handler runs extract_from_url, no HEAD request is made.
C2_EmptyAuthorityIsInvalid ==
    \A r \in live :
        pc[r] # "start" /\ Strip(input[r]) # <<>> /\ Authority(Normalised(input[r])) = <<>> =>
            /\ pc[r] = "done"
            /\ result[r] = Failure(400, "Invalid URL")
            /\ attempts[r] = <<>>
            /\ probes[r] = <<>>
            /\ exc[r] = ""

C2_Witness ==
    \E r \in Reqs :
        /\ Done(r)
        /\ input[r] = <<"/","s","e","r","i","e","s","/","t","h","e","-","c","r","a","z","y","-","y","o","u","n","g","-","m","a","s","t","e","r">>
        /\ url[r] = <<"h","t","t","p","s",":","/","/","/","s","e","r","i","e","s","/","t","h","e","-","c","r","a","z","y","-","y","o","u","n","g","-","m","a","s","t","e","r">>
        /\ result[r] = Failure(400, "Invalid URL")
        /\ attempts[r] = <<>>

\* ---- C3
\* a url field that is a URL without its scheme: no white space around it, no
\* http:// or https:// before it, and a host
SchemeLess(u) ==
    /\ u = Strip(u)
    /\ ~StartsWith(u, HTTP) /\ ~StartsWith(u, HTTPS)
    /\ Authority(HTTPS \o u) # <<>>

\* two requests for u and for "https://" + u that meet the same answers
SchemePair ==
    /\ live = {1, 2}
    /\ SchemeLess(input[1])
    /\ input[2] = HTTPS \o input[1]
    /\ net[1] = net[2]
    /\ seed[1] = seed[2]

\* C3: for a URL u without a scheme, the request for u and the request for
\* "https://" + u issue the same GETs and HEADs for the same URLs and are answered
\* with the same response.
C3_SchemeDefaultsToHttps ==
    SchemePair /\ pc[1] = "done" /\ pc[2] = "done" =>
        /\ url[1] = url[2]
        /\ attempts[1] = attempts[2]
        /\ probes[1] = probes[2]
        /\ result[1] = result[2]

C3_Witness ==
    /\ SchemePair
    /\ pc[1] = "done" /\ pc[2] = "done"
    /\ input[1] = <<"e","x","a","m","p","l","e",".","c","o","m","/","s","e","r","i","e","s">>
    /\ attempts[1] = <<[kind |-> "primary", target |-> <<"h","t","t","p","s",":","/","/","e","x","a","m","p","l","e",".","c","o","m","/","s","e","r","i","e","s">>]>>
    /\ attempts[2] = attempts[1]
    /\ result[1].kind = "ok"
    /\ result[2] = result[1]

\* ---- C4
\* C4: a response with a payload is marked partial exactly when one of the handlers
\* of lines 647-663 built it from extract_from_url; the response built from a page
\* that was fetched and parsed, at the first GET or at a later one, is not.
C4_PartialIffFallback ==
    \A r \in Reqs :
        Answered(r) =>
            /\ result[r].partial <=> exc[r] # ""
            /\ result[r].partial <=> result[r].via = "fallback"
            /\ result[r].partial <=> ~result[r].data.has_comments

C4_Witness ==
    \E r \in Reqs :
        /\ Scraped(r)
        /\ Len(attempts[r]) = 3
        /\ attempts[r][3].kind = "simple"
        /\ ~result[r].partial
        /\ result[r].data.title = Some(<<"M","o","o","n"," ","B","l","a","d","e">>)

\* ---- C5
NoRepeats(tags) ==
    \A i, j \in 1..Len(tags) : i # j => Lower(tags[i]) # Lower(tags[j])

\* C5: the suggested_tags of a scraped page are at most 10, none of them is one of
\* the noise words, and no two of them are equal when case is ignored.
C5_TagsBounded ==
    \A r \in Reqs :
        Scraped(r) =>
            /\ Len(result[r].data.suggested_tags) <= 10
            /\ \A i \in 1..Len(result[r].data.suggested_tags) :
                  result[r].data.suggested_tags[i] \notin noise_words
            /\ NoRepeats(result[r].data.suggested_tags)

\* a page with more than 10 distinct tags, noise words and repeats among them
C5_Witness ==
    \E r \in Reqs :
        /\ Scraped(r)
        /\ response[r].page = [kind |-> "tags", kw |-> 8, genre |-> MaxGenres, extra |-> FALSE]
        /\ Len(result[r].data.suggested_tags) = 10
        /\ Len(without_noise(discovered_tags(Page(response[r].page), url[r]))) > 10
        /\ ~NoRepeats(LowerAll(StripAll(Take(KeywordPool, 8))))
        /\ <<"h","o","m","e">> \in Range(discovered_tags(Page(response[r].page), url[r]))

\* ---- C6
Key(c) == normalized(c.text)
KeysOf(cs) == AsSeq([i \in 1..Len(cs) |-> Key(cs[i])])
AllDiffer(keys) == \A i, j \in 1..Len(keys) : i # j => keys[i] # keys[j]
DistinctKeys(cs) == AllDiffer(KeysOf(cs))

\* C6: the comments of a scraped page are at most 15, and no two of them have the
\* same key (the text lower-cased, its white space collapsed, cut to 80 characters).
C6_CommentsBounded ==
    \A r \in Reqs :
        Scraped(r) =>
            /\ Len(result[r].data.comments) <= 15
            /\ DistinctKeys(result[r].data.comments)

\* a review list of more than 15 distinct elements, two of which share a key
C6_Witness ==
    \E r \in Reqs :
        /\ Scraped(r)
        /\ response[r].url = SeriesUrl
        /\ Page(response[r].page).reviews = <<>>
        /\ Len(Page(response[r].page).review_list) = MaxListed
        /\ Key([text |-> listed_el(1)]) = Key([text |-> listed_el(2)])
        /\ Len(result[r].data.comments) = 15
        /\ result[r].data.total_comments > 15

\* ---- C7
\* the image of the response: a string that is not empty
HasImage(r) == Answered(r) /\ Truthy(result[r].data.image_url)
\* the reference carries no scheme of its own
IsRelative(ref) == urlparse(ref).scheme = <<>>

MoonBladeAt(r, u) == Scraped(r) /\ response[r].page = [kind |-> "MoonBlade"] /\ url[r] = u

\* C8 as stated: with og:title "Moon Blade" and <title> "Moon Blade - Chapter 12" the
\* title is "Moon Blade" and chapter_current is 12.
C8_ChapterFromTitleElement ==
    \A r \in Reqs :
        MoonBladeAt(r, BookUrl) =>
            /\ result[r].data.title = Some(<<"M","o","o","n"," ","B","l","a","d","e">>)
            /\ result[r].data.chapter_current = SomeInt(12)

\* C8, amended: the chapter patterns are searched in the resolved title and the
\* request URL only.  With og:title "Moon Blade" and <title> "Moon Blade - Chapter 12"
\* the title is "Moon Blade" and chapter_current is absent, unless the URL carries a
\* chapter marker; without the og:title the title is "Moon Blade - Chapter 12" and
\* chapter_current is 12.
C8_ChapterFromResolvedTitle ==
    \A r \in Reqs :
        /\ MoonBladeAt(r, BookUrl) =>
              /\ result[r].data.title = Some(<<"M","o","o","n"," ","B","l","a","d","e">>)
              /\ result[r].data.chapter_current = NoInt
        /\ MoonBladeAt(r, ChapterUrl) =>
              /\ result[r].data.title = Some(<<"M","o","o","n"," ","B","l","a","d","e">>)
              /\ result[r].data.chapter_current = SomeInt(5)
        /\ Scraped(r) /\ response[r].page = [kind |-> "Titled"] /\ url[r] = BookUrl =>
              /\ result[r].data.title = Some(<<"M","o","o","n"," ","B","l","a","d","e"," ","-"," ","C","h","a","p","t","e","r"," ","1","2">>)
              /\ result[r].data.chapter_current = SomeInt(12)

C8_Witness ==
    \E r \in Reqs :
        /\ MoonBladeAt(r, BookUrl)
        /\ Page(response[r].page).title_tag = Some(<<"M","o","o","n"," ","B","l","a","d","e"," ","-"," ","C","h","a","p","t","e","r"," ","1","2">>)
        /\ result[r].data.title = Some(<<"M","o","o","n"," ","B","l","a","d","e">>)
        /\ result[r].data.chapter_current = NoInt

\* ---- C9
\* no review block, no element of the review list, no element of a comment selector
NoSelectorMatches(doc) ==
    /\ doc.reviews = <<>>
    /\ doc.review_list = <<>>
    /\ \A i \in 1..Len(doc.comment_els) : doc.comment_els[i] = <<>>

\* none of the four count patterns matches in the first 5000 characters
NoPatternIn(low) ==
    /\ CountBefore(low, <<"c","o","m","m","e","n","t">>) = {}
    /\ CountBefore(low, <<"r","e","v","i","e","w">>) = {}
    /\ CountAfter(low, <<"c","o","m","m","e","n","t">>) = {}
    /\ CountAfter(low, <<"r","e","v","i","e","w">>) = {}
NoCountPattern(doc) == NoPatternIn(Lower(Take(get_text(doc), 5000)))

\* the count element of the review site holds a number
CountElement(r, doc) ==
    /\ Contains(Lower(Authority(response[r].url)), <<"n","o","v","e","l","u","p","d","a","t","e","s",".","c","o","m">>)
    /\ doc.count_el.some
    /\ \E c \in Range(doc.count_el.v) : c \in DigitSet

NothingFound(r) == result[r].data.comments = <<>> /\ result[r].data.total_comments = 0

\* C9 as stated: when no comment or review selector matches and the first 5000
\* characters of the page text hold no count pattern, comments is empty and
\* total_comments is 0, on the review site too.
C9_NoMatchGivesZero ==
    \A r \in Reqs :
        Scraped(r) /\ NoSelectorMatches(Page(response[r].page))
                   /\ NoCountPattern(Page(response[r].page))
            => NothingFound(r)

\* C9, amended: ... and, on the review site, the page has no count element holding a
\* number; there, such an element gives total_comments its number.
C9_NoMatchNoCountGivesZero ==
    \A r \in Reqs :
        Scraped(r) /\ NoSelectorMatches(Page(response[r].page))
                   /\ NoCountPattern(Page(response[r].page))
            => IF CountElement(r, Page(response[r].page))
               THEN /\ result[r].data.comments = <<>>
                    /\ result[r].data.total_comments = 12
               ELSE NothingFound(r)

\* the review site, a count element without a number, a count pattern after the
\* 5000th character
C9_Witness ==
    \E r \in Reqs :
        /\ Scraped(r)
        /\ response[r].url = SeriesUrl
        /\ response[r].page = [kind |-> "bare", count |-> 2, text |-> 2]
        /\ NoSelectorMatches(Page(response[r].page))
        /\ NoCountPattern(Page(response[r].page))
        /\ Contains(get_text(Page(response[r].page)), <<"3"," ","c","o","m","m","e","n","t","s">>)
        /\ NothingFound(r)

\* ---- C10
\* C10: two requests with the same url field that meet the same answers (the same
\* page among them) issue the same GETs and are answered with the same response, the
\* suggested_tags in the same order.
C10_Deterministic ==
    live = {1, 2} /\ input[1] = input[2] /\ net[1] = net[2]
                  /\ pc[1] = "done" /\ pc[2] = "done"
        => attempts[1] = attempts[2] /\ result[1] = result[2]

\* ---- C11
\* the kinds of the GETs of a request, in the order they were issued
Kinds(r) == [i \in 1..Len(attempts[r]) |-> attempts[r][i].kind]
IsPrefix(s, t) == Len(s) <= Len(t) /\ s = SubSeq(t, 1, Len(s))
\* the cascade of lines 572-589 is over: the request is past its GETs
CascadeOver(r) ==
    r \in live /\ attempts[r] # <<>> /\ pc[r] \notin {"primary", "cloudscraper", "simple"}
\* the second attempt failed: the client raised, or could not be imported
SecondRaised(n) == n.a2.exc # ""
\* the second attempt was rejected: the client returned a 403 response
SecondRejected(n) == n.a2.exc = "" /\ n.a2.status = 403

\* the attempts of a request, when the attempt with the simple headers follows the
\* second attempt that meets third
Cascade(n, third) ==
    IF n.a1 # Ok(403) THEN <<"primary">>
    ELSE IF n.a2.exc = "unavailable" THEN <<"primary", "simple">>
    ELSE IF third THEN <<"primary", "cloudscraper", "simple">>
    ELSE <<"primary", "cloudscraper">>

FollowsCascade(r, expected) ==
    /\ IsPrefix(Kinds(r), expected)
    /\ \A i \in 1..Len(attempts[r]) : attempts[r][i].target = url[r]
    /\ CascadeOver(r) => Kinds(r) = expected

\* C11 as stated: the primary attempt first; after a 403 response to it, and only
\* then, an attempt with cloudscraper; and whenever cloudscraper is unavailable, raises
\* or is itself answered with a 403, one more attempt with the simple headers.
C11_RetriesWhenRejected ==
    \A r \in live :
        FollowsCascade(r, Cascade(net[r], SecondRaised(net[r]) \/ SecondRejected(net[r])))

\* C11, amended: the primary attempt first; after a 403 response to it, and only
\* then, an attempt with cloudscraper; the attempt with the simple headers is made
\* exactly when cloudscraper cannot be imported or raises.  A response cloudscraper
\* returns ends the cascade whatever its status: a 403 among them, which line 591
\* turns into the failure of the fetch.
C11_CascadeOrder ==
    \A r \in live : FollowsCascade(r, Cascade(net[r], SecondRaised(net[r])))

C11_Witness ==
    \E r \in Reqs :
        /\ Done(r)
        /\ SecondRejected(net[r])
        /\ Kinds(r) = <<"primary", "cloudscraper">>
        /\ response[r].status = 403
        /\ exc[r] = "RequestException"
        /\ result[r].partial

\* ---- C12
NoRepeat(s) == \A i, j \in 1..Len(s) : i # j => s[i] # s[j]
\* at most 3 GETs, each of its own kind, and at most 2 HEADs, each for its own URL
WithinBudget(r) ==
    /\ Len(attempts[r]) <= 3
    /\ NoRepeat(Kinds(r))
    /\ Len(probes[r]) <= 2
    /\ NoRepeat(probes[r])

\* the steps a request has left at most: the validation, three GETs, line 591, the
\* extractors, a handler, two HEADs
StepsLeft(r) ==
    CASE pc[r] = "start" -> 9
      [] pc[r] = "primary" -> 8
      [] pc[r] = "cloudscraper" -> 7
      [] pc[r] = "simple" -> 6
      [] pc[r] = "raise_for_status" -> 5
      [] pc[r] = "extract" -> 4
      [] pc[r] = "except" -> 3
      [] pc[r] = "probe" -> 2 - Len(probes[r])
      [] OTHER -> 0
\* a request has no step left exactly when it has its response
AtRest(r) ==
    r \in live => /\ StepsLeft(r) >= 0
                  /\ StepsLeft(r) = 0 <=> pc[r] = "done"
                  /\ pc[r] = "done" <=> result[r].kind # "none"
\* a step is the step of one request, which has then fewer steps left
Advances(r) ==
    /\ StepsLeft(r)' < StepsLeft(r)
    /\ Len(attempts[r]') + Len(probes[r]') <= Len(attempts[r]) + Len(probes[r]) + 1
    /\ \A q \in Reqs \ {r} : StepsLeft(q)' = StepsLeft(q)

\* C12: every request ends with a response after at most 9 steps, of which at most 3
\* are GETs and at most 2 are HEAD requests, none of them issued twice: whatever the
\* network answers, every step leaves the request with fewer steps to take, and a
\* request with no step left has its response.
C12_Terminates ==
    /\ [](\A r \in Reqs : WithinBudget(r) /\ AtRest(r))
    /\ [][\E r \in live : Advances(r)]_vars

\* every GET fails and no candidate of the CDN exists
C12_Witness ==
    \E r \in Reqs :
        /\ Done(r)
        /\ Len(attempts[r]) = 3
        /\ Len(probes[r]) = 2
        /\ net[r].a3.exc = "timeout"
        /\ net[r].head = <<404, 0>>
        /\ result[r].partial
        /\ result[r].data.image_url = None

\* ---- C13
\* what the last GET of the request met
LastOutcome(r) ==
    IF attempts[r][Len(attempts[r])].kind = "primary" THEN net[r].a1
    ELSE IF attempts[r][Len(attempts[r])].kind = "cloudscraper" THEN net[r].a2
    ELSE net[r].a3
\* the failure the caller is told of: the status and the message of lines 652, 658, 663
Told(r, code, error) ==
    /\ result[r].kind = "error"
    /\ result[r].code = code
    /\ result[r].error = error
    /\ ~result[r].partial
    /\ result[r].data = NoData
\* the failure of the request, by what its last GET met
OriginalFailure(r, met) ==
    IF met.exc = "timeout" THEN exc[r] = "Timeout" /\ Told(r, 408, "Request timed out")
    ELSE IF met.exc # "" \/ met.status >= 400
    THEN exc[r] = "RequestException" /\ Told(r, 400, "Failed to fetch URL")
    ELSE exc[r] = "Exception" /\ Told(r, 500, "Error processing URL")

\* C13: when a GET of the request or the extraction fails and the path of the URL has
\* no segment that is not empty, extract_from_url returns None, no HEAD request is
\* made, and the caller is told of the failure itself: 408 for a timeout, 400 for any
\* other exception of the GET and for an error status, 500 for an exception of the
\* extraction.
C13_NoSegmentNoFallback ==
    \A r \in Reqs :
        FetchFailed(r) /\ ~HasSegment(url[r]) =>
            /\ extract_from_url(url[r]).none
            /\ probes[r] = <<>>
            /\ OriginalFailure(r, LastOutcome(r))

\* the page is fetched and extract_chapter_info raises
C13_Witness ==
    \E r \in Reqs :
        /\ FetchFailed(r)
        /\ url[r] = <<"h","t","t","p","s",":","/","/","e","x","a","m","p","l","e",".","c","o","m","/","?","p","a","g","e","=","2","#","c">>
        /\ LastOutcome(r) = Ok(200)
        /\ response[r].page = [kind |-> "HugeTotal"]
        /\ Told(r, 500, "Error processing URL")

\* ---- C14
\* the candidates of the probe of a request, in the order of lines 729-732
Candidates(r) == cdn_patterns(extract_from_url(url[r]).slug)
\* the first candidate whose HEAD request is answered with 200; 0 when there is none
FirstFound(heads) == MinOr({k \in 1..Len(heads) : heads[k] = 200}, 0)
\* the handler of the request calls try_fetch_novelupdates_image
ProbeCalled(r) == r \in live /\ exc[r] # "" /\ pc[r] \in {"probe", "done"}
                            /\ extract_from_url(url[r]).probe
\* the probe stopped at candidate k, and found it, or went through them all
ProbeEnded(r, k) ==
    /\ probes[r] = (IF k = 0 THEN Candidates(r) ELSE Take(Candidates(r), k))
    /\ result[r].data.image_url = (IF k = 0 THEN None ELSE Some(Candidates(r)[k]))
    /\ result[r].kind = "ok"
    /\ result[r].partial
    /\ result[r].data.title = Some(slug_title(extract_from_url(url[r]).slug))

\* C14: the HEAD requests of the probe go to the candidates in their order, .jpg
\* before .png; the probe returns the first candidate answered with 200 and asks for
\* no candidate after it, else None; a candidate answered with another status, or not
\* answered at all, only leads to the next one: the handler still returns the partial
\* result.
C14_ProbeFirstFound ==
    \A r \in Reqs :
        ProbeCalled(r) =>
            /\ IsPrefix(probes[r], Candidates(r))
            /\ pc[r] = "done" => ProbeEnded(r, FirstFound(net[r].head))

\* the first HEAD request times out, the second is answered with 200
C14_Witness ==
    \E r \in Reqs :
        /\ ProbeCalled(r)
        /\ pc[r] = "done"
        /\ net[r].head = <<0, 200>>
        /\ probes[r] = << <<"h","t","t","p","s",":","/","/","c","d","n",".","n","o","v","e","l","u","p","d","a","t","e","s",".","c","o","m","/","i","m","g","m","i","d","/","m","o","o","n","-","b","l","a","d","e",".","j","p","g">>,
                          <<"h","t","t","p","s",":","/","/","c","d","n",".","n","o","v","e","l","u","p","d","a","t","e","s",".","c","o","m","/","i","m","g","m","i","d","/","m","o","o","n","-","b","l","a","d","e",".","p","n","g">> >>
        /\ result[r].data.image_url = Some(<<"h","t","t","p","s",":","/","/","c","d","n",".","n","o","v","e","l","u","p","d","a","t","e","s",".","c","o","m","/","i","m","g","m","i","d","/","m","o","o","n","-","b","l","a","d","e",".","p","n","g">>)

\* ---- C15
\* the tags of the page of a request in the order the sources give them: keywords,
\* og:type, genre selectors, ld+json, labelled text, url rules; without the noise words
Discovered(r) == without_noise(discovered_tags(Page(response[r].page), url[r]))

\* C15: suggested_tags holds the tags in the order they were discovered, a tag found
\* earlier before a tag found later, and the first 10 discovered when more than 10
\* are.
C15_DiscoveryOrder ==
    \A r \in Reqs :
        Scraped(r) => result[r].data.suggested_tags = Take(Discovered(r), 10)

\* ---- C16
\* api_scrape_url run from its first line to its return on its own, for the url field
\* u, the answers n and the hash seed s: the GETs, the HEADs and the response
Outcome(kinds, target, heads, answer) ==
    [attempts |-> [i \in 1..Len(kinds) |-> [kind |-> kinds[i], target |-> target]],
     probes |-> heads,
     result |-> answer]
\* the handlers of lines 647-663 for an exception of class e
AloneProbed(kinds, u, data, candidates, k) ==
    Outcome(kinds, u, IF k = 0 THEN candidates ELSE Take(candidates, k),
            fallback_result(IF k = 0 THEN data
                            ELSE [data EXCEPT !.image_url = Some(candidates[k])]))
AloneFallback(kinds, u, n, e, fallback) ==
    IF fallback.none THEN Outcome(kinds, u, <<>>, handler_failure(e))
    ELSE IF fallback.probe
    THEN AloneProbed(kinds, u, fallback.data, cdn_patterns(fallback.slug), FirstFound(n.head))
    ELSE Outcome(kinds, u, <<>>, fallback_result(fallback.data))
AloneHandled(kinds, u, n, e) == AloneFallback(kinds, u, n, e, extract_from_url(u))
\* lines 593-645
AloneScraped(kinds, u, n, scraped) ==
    IF scraped.raises THEN AloneHandled(kinds, u, n, "Exception")
    ELSE Outcome(kinds, u, <<>>, success_result(scraped.data))
\* line 591 and after, for what the last GET met
AloneMet(kinds, u, n, s, met) ==
    IF met.exc = "timeout" THEN AloneHandled(kinds, u, n, "Timeout")
    ELSE IF met.exc # "" \/ met.status >= 400 THEN AloneHandled(kinds, u, n, "RequestException")
    ELSE AloneScraped(kinds, u, n,
                      scrape(Page(n.page), IF n.final.some THEN n.final.v ELSE u, u, s))
\* lines 572-589
AloneFetched(u, n, s) ==
    AloneMet(Cascade(n, SecondRaised(n)), u, n, s,
             IF n.a1 # Ok(403) THEN n.a1 ELSE IF SecondRaised(n) THEN n.a3 ELSE n.a2)
\* lines 539-553
AloneValidated(v, n, s) ==
    IF v.outcome = "required" THEN Outcome(<<>>, v.url, <<>>, Failure(400, "URL is required"))
    ELSE IF v.outcome = "invalid" THEN Outcome(<<>>, v.url, <<>>, Failure(400, "Invalid URL"))
    ELSE IF v.outcome = "raises" THEN AloneHandled(<<>>, v.url, n, "Exception")
    ELSE AloneFetched(v.url, n, s)
Alone(u, n, s) == AloneValidated(validate(Strip(u)), n, s)

\* the request ended as it ends on its own
AsAlone(r, alone) ==
    /\ attempts[r] = alone.attempts
    /\ probes[r] = alone.probes
    /\ result[r] = alone.result
\* a step is the step of one request: it leaves what the others hold as it is
OnlyMoves(r) ==
    /\ \A q \in Reqs \ {r} :
          /\ pc'[q] = pc[q] /\ url'[q] = url[q] /\ attempts'[q] = attempts[q]
          /\ response'[q] = response[q] /\ exc'[q] = exc[q]
          /\ probes'[q] = probes[q] /\ result'[q] = result[q]
    /\ UNCHANGED <<live, input, net, seed>>

\* C16: requests served at the same time do not meet: whatever the order of the steps
\* of two requests, a step of one changes nothing the other holds (its url, its
\* session's GETs, its response, its result), and each ends with the GETs, the HEADs
\* and the response it ends with when it is served alone.
C16_Independent ==
    /\ [](\A r \in live : pc[r] = "done" => AsAlone(r, Alone(input[r], net[r], seed[r])))
    /\ [][\E r \in live : OnlyMoves(r)]_vars

\* two requests for two urls, one answered from the page, one from its url after
\* three GETs
C16_Witness ==
    /\ live = {1, 2}
    /\ pc[1] = "done" /\ pc[2] = "done"
    /\ input[1] = CrazyUrl /\ input[2] = SeriesUrl
    /\ Kinds(1) = <<"primary", "cloudscraper", "simple">>
    /\ result[1].partial
    /\ result[1].data.title = Some(<<"T","h","e"," ","C","r","a","z","y"," ","Y","o","u","n","g"," ","M","a","s","t","e","r">>)
    /\ Kinds(2) = <<"primary">>
    /\ ~result[2].partial
    /\ result[2].data.title = Some(<<"M","o","o","n"," ","B","l","a","d","e"," ","-"," ","C","h","a","p","t","e","r"," ","1","2">>)
    /\ result[2].data.url = BookUrl

\* ---- C17
\* the page of a scraped request and the URL extract_comments is given
Doc(r) == Page(response[r].page)
OnReviewSite(r) == is_review_site(response[r].url)
\* the comments of each strategy: the review blocks, the review list, the generic
\* selectors
PrimaryFound(r) == IF OnReviewSite(r) THEN review_comments(Take(Doc(r).reviews, 15)) ELSE <<>>
SecondaryFound(r) ==
    IF OnReviewSite(r) /\ PrimaryFound(r) = <<>> THEN review_list_comments(Doc(r).review_list)
    ELSE <<>>
GenericFound(r) ==
    IF PrimaryFound(r) = <<>> /\ SecondaryFound(r) = <<>> THEN generic_comments(Doc(r).comment_els)
    ELSE <<>>
\* the comments found, and the first of every key among them
Found(r) == PrimaryFound(r) \o SecondaryFound(r) \o GenericFound(r)
\* no count element with a number, and no count pattern in the first 5000 characters
\* of the text, before and after the review blocks are stripped
NoCountSignal(r) ==
    /\ Scraped(r)
    /\ ~CountElement(r, Doc(r))
    /\ NoCountPattern(Doc(r))
    /\ NoCountPattern(extract_comments(Doc(r), response[r].url).soup)

\* C17 as stated: without a count signal, total_comments is the length of the
\* comments returned, for each of the three strategies.
C17_TotalIsReturnedLength ==
    \A r \in Reqs :
        NoCountSignal(r) => result[r].data.total_comments = Len(result[r].data.comments)

\* C17, amended: without a count signal, total_comments is the number of unique
\* comments found, counted before the list is cut to 15.  It is the length of the
\* comments returned for the review blocks and for the generic selectors, which look
\* at 15 elements at most, and for a review list of no more than 15 unique entries;
\* for a longer review list, total_comments is greater than the 15 returned.
C17_TotalIsUniqueFound ==
    \A r \in Reqs :
        NoCountSignal(r) =>
            /\ result[r].data.total_comments = Len(unique_comments(Found(r)))
            /\ result[r].data.comments = Take(unique_comments(Found(r)), 15)
            /\ SecondaryFound(r) = <<>> =>
                  result[r].data.total_comments = Len(result[r].data.comments)
            /\ result[r].data.total_comments # Len(result[r].data.comments) =>
                  /\ Len(result[r].data.comments) = 15
                  /\ result[r].data.total_comments > 15
                  /\ Len(Doc(r).review_list) > 15

\* a review list of 17 entries, two of them with the same key
C17_Witness ==
    \E r \in Reqs :
        /\ NoCountSignal(r)
        /\ Len(SecondaryFound(r)) = 17
        /\ Len(result[r].data.comments) = 15
        /\ result[r].data.total_comments = 16

\* ---- C18
\* the lowercased first 50 characters hold one of the phrases of line 1065
HasPrompt(text) == \E p \in comment_skip_phrases : Contains(Lower(Take(text, 50)), p)
\* retained: more than 30 and fewer than 2000 characters, or, as stated, at least 30
\* and at most 2000; and no prompt
Retained(text, inclusive) ==
    /\ IF inclusive THEN Len(text) >= 30 /\ Len(text) <= 2000
       ELSE Len(text) > 30 /\ Len(text) < 2000
    /\ ~HasPrompt(text)
\* the elements of a selector the loop of line 1060 looks at
Looked(els) == Take(els, 15)
\* the generic strategy runs
GenericTurn(r) == Scraped(r) /\ PrimaryFound(r) = <<>> /\ SecondaryFound(r) = <<>>
\* the keys of the comments returned
Keys(r) == {Key(result[r].data.comments[i]) : i \in 1..Len(result[r].data.comments)}
\* the loop of line 1057 comes to the g-th selector: none before it gave a comment
ComesTo(groups, g, inclusive) ==
    \A h \in 1..g - 1 : \A e \in Range(Looked(groups[h])) : ~Retained(e.text, inclusive)
\* of the elements of the selector it stops at, the ones retained are the ones
\* returned, cut to 500 characters
Sifted(groups, keys, inclusive) ==
    \A g \in 1..Len(groups) :
        ComesTo(groups, g, inclusive) =>
            \A e \in Range(Looked(groups[g])) :
                normalized(Take(e.text, 500)) \in keys <=> Retained(e.text, inclusive)

\* C18 as stated: a candidate of the generic strategy is discarded exactly when it
\* has fewer than 30 characters, more than 2000, or a prompt in its lowercased first 50
\* characters; one of exactly 30 or exactly 2000 characters is retained.
C18_BoundsInclusive ==
    \A r \in Reqs : GenericTurn(r) => Sifted(Doc(r).comment_els, Keys(r), TRUE)

\* C18, amended: a candidate of the generic strategy is retained exactly when it has
\* more than 30 and fewer than 2000 characters and no prompt in its lowercased first
\* 50 characters: one of exactly 30 or exactly 2000 characters is discarded, one of 31
\* or of 1999 is retained, as is one whose prompt begins after the 50th character or
\* runs across it.
C18_BoundsExclusive ==
    \A r \in Reqs : GenericTurn(r) => Sifted(Doc(r).comment_els, Keys(r), FALSE)

\* a selector with candidates of 29, 30, 31, 1999, 2000 and 2001 characters
C18_Witness ==
    \E r \in Reqs :
        /\ GenericTurn(r)
        /\ ComesTo(Doc(r).comment_els, 3, FALSE)
        /\ {29, 30, 31, 1999, 2000, 2001}
              \subseteq {Len(e.text) : e \in Range(Looked(Doc(r).comment_els[3]))}
        /\ {normalized(comment_text(i)) : i \in {6, 12, 13}} \subseteq Keys(r)
        /\ normalized(Take(comment_text(10), 500)) \in Keys(r)
        /\ {normalized(Take(comment_text(i), 500)) : i \in {5, 7, 8, 11, 14}} \cap Keys(r) = {}

\* ---- C19
\* the document extract_comments leaves behind, for the page the request was served
Left(r) == extract_comments(Doc(r), response[r].url).soup
\* the total the count patterns of extract_comments give when they read doc
ReadsCount(r, doc) == count_digits(get_text(doc))

\* C19: every extractor leaves the parsed document as it found it, so that what
\* extract_comments reads late (the page text of its count patterns) is what the
\* document held when it was parsed
C19_DocumentUnchanged ==
    \A r \in Reqs :
        Scraped(r) => /\ Left(r) = Doc(r)
                      /\ ReadsCount(r, Left(r)) = ReadsCount(r, Doc(r))

\* ---- C20
\* the request is over and its last response passed raise_for_status: the page was
\* parsed and the extractors ran
Parsed(r) == Done(r) /\ response[r].status \in 1..399
\* the result is the one of lines 632-645, with the title the page gives
Complete(r) ==
    /\ Scraped(r)
    /\ ~result[r].partial
    /\ result[r].via = "extract"
    /\ result[r].data.title = extract_title(Doc(r))

\* C20: a failure inside one extractor is "no match" for that step only: once the page
\* is fetched and parsed the request ends with the non-partial result of the
\* extractors, never with the URL-only fallback or an error
C20_ExtractorFailureIsLocal == \A r \in Reqs : Parsed(r) => Complete(r)

\* ---- C21
\* what the i-th GET of the request met
Met(r, i) ==
    IF attempts[r][i].kind = "primary" THEN net[r].a1
    ELSE IF attempts[r][i].kind = "cloudscraper" THEN net[r].a2
    ELSE net[r].a3
TimedOut(met) == met.exc = "timeout"
\* the attempt was answered, with a status that refuses the request
Rejected(met) == met.exc = "" /\ met.status >= 400
\* the fetch of the request failed: a handler was entered before any page was parsed
FetchGaveUp(r) == FetchFailed(r) /\ exc[r] # "Exception"
\* the two failures of the fetch the caller can be told of (lines 652 and 658)
ReportedTimeout(r) == Told(r, 408, "Request timed out")
ReportedDenied(r) == Told(r, 400, "Failed to fetch URL")
\* the handler entered, by what the last GET met
HandlerOf(met) == IF TimedOut(met) THEN "Timeout" ELSE "RequestException"

\* C21 as stated: the timeout failure is reported only if every attempt made timed
\* out, and the failure of line 658 only if every attempt made was rejected
C21_ClassMatchesAllAttempts ==
    \A r \in Reqs :
        FetchGaveUp(r) =>
            /\ ReportedTimeout(r) => \A i \in 1..Len(attempts[r]) : TimedOut(Met(r, i))
            /\ ReportedDenied(r) => \A i \in 1..Len(attempts[r]) : Rejected(Met(r, i))

\* C21: the failure class of a request is decided by its last attempt alone: the
\* handler of line 647 is entered exactly when the last GET timed out, whatever the
\* earlier attempts met, and the handler of line 653 otherwise; when the URL gives no
\* fallback the caller is told 408 "Request timed out" in the first case and 400
\* "Failed to fetch URL" in the second
C21_LastAttemptDecides ==
    \A r \in Reqs :
        FetchGaveUp(r) =>
            /\ exc[r] = HandlerOf(LastOutcome(r))
            /\ result[r].kind = "error" =>
                  IF TimedOut(LastOutcome(r)) THEN ReportedTimeout(r) ELSE ReportedDenied(r)

\* the primary attempt was rejected, the last attempt timed out, and the caller is told
\* of a plain timeout
C21_Witness ==
    \E r \in Reqs :
        /\ FetchGaveUp(r)
        /\ Len(attempts[r]) > 1
        /\ Rejected(Met(r, 1))
        /\ TimedOut(LastOutcome(r))
        /\ ReportedTimeout(r)

\* ---- C22
\* what each step of the cascade retains when it is consulted on its own, in the order
\* of the code: the review blocks and the review list (on the review site only), then
\* the eight generic selector groups
SiteSteps(doc, site) ==
    IF site THEN <<review_comments(Take(doc.reviews, 15)), review_list_comments(doc.review_list)>>
    ELSE << <<>>, <<>> >>
GroupSteps(doc) == [g \in 1..8 |-> group_comments(Take(doc.comment_els[g], 15))]
StepsOn(doc, site) == SiteSteps(doc, site) \o GroupSteps(doc)
Steps(r) == StepsOn(Doc(r), OnReviewSite(r))
\* the first step that retains a comment, 0 when none does
FirstRetaining(steps) == MinOr({i \in 1..Len(steps) : steps[i] # <<>>}, 0)
\* the comments returned when they are those of step i alone
OfStep(steps, i) == IF i = 0 THEN <<>> ELSE Take(unique_comments(steps[i]), 15)
FromFirstRetaining(r, steps) == result[r].data.comments = OfStep(steps, FirstRetaining(steps))

\* C22: the comments of a result are those of one step alone, the first in the order
\* primary, secondary, generic groups 1 to 8 that retains a comment; what a later step
\* would retain is never added to them
C22_SingleStep == \A r \in Reqs : Scraped(r) => FromFirstRetaining(r, Steps(r))

LaterRetains(steps, i) == \E j \in i + 1..Len(steps) : steps[j] # <<>>
SeveralRetain(steps) ==
    /\ steps[1] # <<>>
    /\ steps[2] # <<>>
    /\ LaterRetains(steps, 2)
\* the review blocks retain comments on a page whose review list and generic groups
\* would retain some too
C22_Witness ==
    \E r \in Reqs : Scraped(r) /\ result[r].data.comments # <<>> /\ SeveralRetain(Steps(r))

\* ---- C23
\* C23: whatever was submitted, every reading material's status_id is empty or the id
\* of a status of the table, so that index and api_search find a group for it
C23_StatusIdsValid ==
    \A item \in db.items :
        /\ item.status_id.some => item.status_id.n \in Ids(db.statuses)
        /\ index_finds(db, item)
        /\ api_search_finds(db, item)

\* ---- C24
\* C24: no two tags of the table have names that are equal when case is ignored
C24_NoCaseDuplicates ==
    \A t1, t2 \in db.tags : Lower(t1.name) = Lower(t2.name) => t1.id = t2.id

====
